---- MODULE Spec2Model ----
(***************************************************************************)
(* extendedjsonschema: a JSON Schema (Draft-04) validator.                 *)
(*                                                                         *)
(* A Validator is constructed from a schema definition (dialect selection, *)
(* keyword instantiation, keyword validation, pruning, lowering into a     *)
(* Program) and is then called on a JSON instance: the program's rules     *)
(* append Error records to an accumulator, and the call either returns or  *)
(* raises a ValidationError that groups the records by path.               *)
(***************************************************************************)
EXTENDS Integers, Sequences, FiniteSets, TLC

VARIABLES
    schema_definition,  \* the JSON document handed to Validator.__init__
    data,               \* the JSON instance handed to Validator.__call__
    pc,                 \* position of the caller: "new", "ready", "running", ...
    _program,           \* Validator._program, the compiled Program
    init_error,         \* what Validator.__init__ raised: [exc, path]
    todo,               \* the rules Program.run executes for this instance, in order
    next_rule,          \* index in todo of the next rule to invoke
    errors,             \* the accumulator `errors` of Validator.__call__
    before,             \* the accumulator as it was before the last rule ran
    raised,             \* ValidationError.errors of the last call (the groups)
    calls,              \* the concurrent calls of the Validator, one per thread
    accumulators        \* the `errors` lists of the concurrent calls

vars == <<schema_definition, data, pc, _program, init_error, todo, next_rule,
          errors, before, raised, calls, accumulators>>

-----------------------------------------------------------------------------
(* Bounds of the model.                                                    *)

\* longest array of integers among the instances
MaxArrLen == 4
\* longest array of mixed (scalar, array, object) elements among the instances
MaxMixedLen == 2
\* most branches of an allOf / anyOf / oneOf among the schemas
MaxBranches == 2
\* most schemas of an array-form `items` among the schemas
MaxTuple == 2
\* threads that call one Validator concurrently
MaxThreads == 2

-----------------------------------------------------------------------------
(* JSON values as Python holds them after json.loads: t is the name of the *)
(* Python type (type(value).__name__), n the numeric payload of bool, int  *)
(* and float counted in halves (so that 1, 1.0 and 1.5 are 2, 2 and 3),    *)
(* s the payload of str, c the elements of a list or the values of a dict, *)
(* keys the keys of a dict in insertion order.                             *)

JNull == [t |-> "NoneType", n |-> 0, s |-> "", keys |-> <<>>, c |-> <<>>]
JBool(b) == [t |-> "bool", n |-> IF b THEN 2 ELSE 0, s |-> "", keys |-> <<>>, c |-> <<>>]
JInt(i) == [t |-> "int", n |-> 2 * i, s |-> "", keys |-> <<>>, c |-> <<>>]
JFloat(halves) == [t |-> "float", n |-> halves, s |-> "", keys |-> <<>>, c |-> <<>>]
JStr(s) == [t |-> "str", n |-> 0, s |-> s, keys |-> <<>>, c |-> <<>>]
JList(c) == [t |-> "list", n |-> 0, s |-> "", keys |-> <<>>, c |-> c]
JDict(keys, c) == [t |-> "dict", n |-> 0, s |-> "", keys |-> keys, c |-> c]

PyTypes == {"NoneType", "bool", "int", "float", "str", "list", "dict"}

\* key in d  (d a dict)
DictHas(d, key) == \E i \in 1..Len(d.keys) : d.keys[i] = key
\* d[key]
DictGet(d, key) == d.c[CHOOSE i \in 1..Len(d.keys) : d.keys[i] = key]
\* set(d.keys())
DictKeySet(d) == {d.keys[i] : i \in 1..Len(d.keys)}

\* Python's == between two hashable JSON values (the equality a set uses):
\* bool, int and float compare by numeric value, str by content, None is None.
PyNumeric == {"bool", "int", "float"}
PyEqHashable(a, b) ==
    \/ a.t \in PyNumeric /\ b.t \in PyNumeric /\ a.n = b.n
    \/ a.t = "str" /\ b.t = "str" /\ a.s = b.s
    \/ a.t = "NoneType" /\ b.t = "NoneType"
\* list and dict are unhashable: hash(value) raises TypeError
PyUnhashable(v) == v.t \in {"list", "dict"}

\* A path token: an object key or an array index.
PathKey(k) == [key |-> k, idx |-> -1]
PathIdx(i) == [key |-> "", idx |-> i]

\* utils.Error(path, keyword): the keyword is kept by its name and value
Error(path, rule) == [path |-> path, keyword |-> rule.name, value |-> rule.value]

Range(seq) == {seq[i] : i \in 1..Len(seq)}

-----------------------------------------------------------------------------
(* Strings and regular expressions.                                        *)

\* list(s): the characters of the strings that keywords look into
Chars(s) ==
    CASE s = "" -> <<>>
      [] s \in {"a", "b", "c", "x", "("} -> <<s>>
      [] s = "ab" -> <<"a", "b">>
      [] s = "ba" -> <<"b", "a">>
      [] s = "abc" -> <<"a", "b", "c">>
      [] s = "1.2.3.4" -> <<"1", ".", "2", ".", "3", ".", "4">>
      [] s = "01.2.3.4" -> <<"0", "1", ".", "2", ".", "3", ".", "4">>
      [] s = "0.0.0.0" -> <<"0", ".", "0", ".", "0", ".", "0">>
      [] s = "1.2.3.255" -> <<"1", ".", "2", ".", "3", ".", "2", "5", "5">>
      [] s = "1.2.3.256" -> <<"1", ".", "2", ".", "3", ".", "2", "5", "6">>
      [] s = "1.2.3" -> <<"1", ".", "2", ".", "3">>
      [] s = "1.2.3.4.5" -> <<"1", ".", "2", ".", "3", ".", "4", ".", "5">>
      [] s = "1..2.3" -> <<"1", ".", ".", "2", ".", "3">>
      [] s = "1.2.3." -> <<"1", ".", "2", ".", "3", ".">>
      [] s = "a.b.c.d" -> <<"a", ".", "b", ".", "c", ".", "d">>
      [] s = "1.2.3.a" -> <<"1", ".", "2", ".", "3", ".", "a">>
      [] s = "a.2.3.256" -> <<"a", ".", "2", ".", "3", ".", "2", "5", "6">>
      [] s = "1.2.3.-1" -> <<"1", ".", "2", ".", "3", ".", "-", "1">>

\* len(s)
StrLen(s) == Len(Chars(s))

\* re.compile(pattern) raises re.error; the patterns of the model are
\* literals (every character stands for itself) and the unbalanced "("
re_error(pattern) == pattern = "("

\* re.compile(pattern).match(string): the pattern matches at the start
re_match(pattern, string) ==
    LET p == Chars(pattern)
        t == Chars(string)
    IN Len(p) <= Len(t) /\ SubSeq(t, 1, Len(p)) = p

\* string.split(sep): the parts of the characters t, part the one being read
RECURSIVE SplitLoop(_, _, _, _)
SplitLoop(t, sep, i, part) ==
    IF i > Len(t) THEN <<part>>
    ELSE IF t[i] = sep THEN <<part>> \o SplitLoop(t, sep, i + 1, <<>>)
    ELSE SplitLoop(t, sep, i + 1, Append(part, t[i]))

split(string, sep) == SplitLoop(Chars(string), sep, 1, <<>>)

\* int(part) for a part over digits, letters and signs: an optional sign and
\* one or more decimal digits, anything else raises ValueError
Digits == <<"0", "1", "2", "3", "4", "5", "6", "7", "8", "9">>
DigitValue(ch) == (CHOOSE d \in 1..10 : Digits[d] = ch) - 1
Unsigned(part) == IF Len(part) > 0 /\ part[1] \in {"-", "+"} THEN Tail(part) ELSE part
int_ValueError(part) ==
    Unsigned(part) = <<>> \/ \E i \in 1..Len(Unsigned(part)) : Unsigned(part)[i] \notin Range(Digits)

RECURSIVE DecimalValue(_, _)
DecimalValue(digits, acc) ==
    IF digits = <<>> THEN acc
    ELSE DecimalValue(Tail(digits), 10 * acc + DigitValue(Head(digits)))

int(part) ==
    IF part[1] = "-" THEN 0 - DecimalValue(Unsigned(part), 0) ELSE DecimalValue(Unsigned(part), 0)

-----------------------------------------------------------------------------
(* Results of the parts of construction that may raise.                    *)

NoError == [exc |-> "none", path |-> <<>>]
SchemaError(path) == [exc |-> "SchemaError", path |-> path]
TypeError == [exc |-> "TypeError", path |-> <<>>]
AttributeError == [exc |-> "AttributeError", path |-> <<>>]

\* value < 0 and a < b on Python values: bool, int and float are ordered by
\* their numeric value, any other operand raises TypeError
PyOrdered(v) == v.t \in PyNumeric

\* Program(schema, general, type_specific)
Program(general, type_specific) == [general |-> general, type_specific |-> type_specific]
EmptyProgram == Program(<<>>, [t \in PyTypes |-> <<>>])

-----------------------------------------------------------------------------
(* The dialect's keyword table and the keywords' class attributes.         *)

\* Type.valid_types: JSON Schema type name -> Python type
valid_types ==
    [array |-> "list", boolean |-> "bool", integer |-> "int", null |-> "NoneType",
     number |-> "float", object |-> "dict", string |-> "str"]

\* Schema.keywords: the names the Draft-04 dialect recognises
keywords ==
    {"enum", "type", "allOf", "anyOf", "oneOf", "not",
     "items", "additionalItems", "minItems", "maxItems", "uniqueItems",
     "minimum", "maximum", "multipleOf", "exclusiveMinimum", "exclusiveMaximum",
     "properties", "patternProperties", "additionalProperties", "required",
     "minProperties", "maxProperties",
     "minLength", "maxLength", "format", "pattern"}

\* the same names in the order the table declares them
keywords_keys ==
    <<"enum", "type", "allOf", "anyOf", "oneOf", "not",
      "items", "additionalItems", "minItems", "maxItems", "uniqueItems",
      "minimum", "maximum", "multipleOf", "exclusiveMinimum", "exclusiveMaximum",
      "properties", "patternProperties", "additionalProperties", "required",
      "minProperties", "maxProperties",
      "minLength", "maxLength", "format", "pattern">>

\* Keyword.type of each keyword class, as the tuple the class declares
\* (the empty tuple stands for None: the keyword is general)
KeywordType(name) ==
    CASE name \in {"enum", "type", "allOf", "anyOf", "oneOf", "not"} -> <<>>
      [] name \in {"items", "additionalItems", "minItems", "maxItems", "uniqueItems"} -> <<"array">>
      [] name \in {"minimum", "maximum", "multipleOf", "exclusiveMinimum", "exclusiveMaximum"}
            -> <<"integer", "number">>
      [] name \in {"properties", "patternProperties", "additionalProperties", "required",
                   "minProperties", "maxProperties"} -> <<"object">>
      [] OTHER -> <<"string">>

\* Keyword.__init__(value, schema, path, rules)
Keyword(name, value, path) == [name |-> name, value |-> value, path |-> path]

\* name in rules, and rules[name], for the sibling map of a keyword
InRules(kws, name) == \E i \in 1..Len(kws) : kws[i].name = name
RulesGet(kws, name) == kws[CHOOSE i \in 1..Len(kws) : kws[i].name = name]
Min(S) == CHOOSE m \in S : \A o \in S : m <= o

-----------------------------------------------------------------------------
(* Keyword.validate() of each keyword class.                               *)

Type_validate(kw) ==
    LET v == kw.value IN
    IF v.t = "str" THEN
        IF v.s \in DOMAIN valid_types THEN NoError ELSE SchemaError(kw.path)
    ELSE IF v.t = "list" THEN
        IF Len(v.c) = 0 THEN SchemaError(kw.path)
        ELSE IF \E i \in 1..Len(v.c) : v.c[i].t # "str" \/ v.c[i].s = "" THEN SchemaError(kw.path)
        ELSE IF Len(v.c) # Cardinality({v.c[i].s : i \in 1..Len(v.c)}) THEN SchemaError(kw.path)
        ELSE IF ~({v.c[i].s : i \in 1..Len(v.c)} \subseteq DOMAIN valid_types) THEN SchemaError(kw.path)
        ELSE NoError
    ELSE SchemaError(kw.path)

Enum_validate(kw) ==
    LET v == kw.value IN
    IF v.t # "list" THEN SchemaError(kw.path)
    ELSE IF Len(v.c) = 0 THEN SchemaError(kw.path)
    \* set(self.value) hashes every element
    ELSE IF \E i \in 1..Len(v.c) : PyUnhashable(v.c[i]) THEN TypeError
    \* len(self.value) != len(set(self.value))
    ELSE IF \E i, j \in 1..Len(v.c) : i < j /\ PyEqHashable(v.c[i], v.c[j]) THEN SchemaError(kw.path)
    ELSE NoError

\* AllOf.validate, AnyOf.validate and OneOf.validate are the same code
Of_validate(kw) ==
    LET v == kw.value IN
    IF v.t # "list" THEN SchemaError(kw.path)
    ELSE LET bad == {i \in 1..Len(v.c) : v.c[i].t # "dict"} IN
         IF bad = {} THEN NoError
         ELSE SchemaError(Append(kw.path, PathIdx(Min(bad) - 1)))

Not_validate(kw) ==
    IF kw.value.t # "dict" THEN SchemaError(kw.path) ELSE NoError

Items_validate(kw) ==
    LET v == kw.value IN
    IF v.t \notin {"dict", "list"} THEN SchemaError(kw.path)
    ELSE IF v.t = "list" THEN
        LET bad == {i \in 1..Len(v.c) : v.c[i].t # "dict"} IN
        IF bad = {} THEN NoError
        ELSE SchemaError(Append(kw.path, PathIdx(Min(bad) - 1)))
    ELSE NoError

AdditionalItems_validate(kw) ==
    IF kw.value.t \notin {"bool", "dict"} THEN SchemaError(kw.path) ELSE NoError

UniqueItems_validate(kw) ==
    IF kw.value.t # "bool" THEN SchemaError(kw.path) ELSE NoError

Properties_validate(kw) ==
    LET v == kw.value IN
    IF v.t # "dict" THEN SchemaError(kw.path)
    ELSE IF Len(v.keys) = 0 THEN SchemaError(kw.path)
    ELSE IF \E i \in 1..Len(v.keys) : v.keys[i] = "" THEN SchemaError(kw.path)
    ELSE LET bad == {i \in 1..Len(v.keys) : v.c[i].t # "dict"} IN
         IF bad = {} THEN NoError
         ELSE SchemaError(Append(kw.path, PathKey(v.keys[Min(bad)])))

PatternProperties_validate(kw) ==
    LET v == kw.value IN
    IF v.t # "dict" THEN SchemaError(kw.path)
    ELSE IF Len(v.keys) = 0 THEN SchemaError(kw.path)
    ELSE IF \E i \in 1..Len(v.keys) : v.keys[i] = "" THEN SchemaError(kw.path)
    ELSE LET bad == {i \in 1..Len(v.keys) : v.c[i].t # "dict" \/ re_error(v.keys[i])} IN
         IF bad = {} THEN NoError
         ELSE IF v.c[Min(bad)].t # "dict"
         THEN SchemaError(Append(kw.path, PathKey(v.keys[Min(bad)])))
         ELSE SchemaError(kw.path)

AdditionalProperties_validate(kw) ==
    IF kw.value.t \notin {"bool", "dict"} THEN SchemaError(kw.path) ELSE NoError

\* MultipleOf.validate: only a value below 0 is refused
MultipleOf_validate(kw) ==
    IF kw.value.t # "int" THEN SchemaError(kw.path)
    ELSE IF kw.value.n < 0 THEN SchemaError(kw.path)
    ELSE NoError

\* MinItems.validate
MinItems_validate(kw) ==
    IF kw.value.t # "int" THEN SchemaError(kw.path)
    ELSE IF kw.value.n < 0 THEN SchemaError(kw.path)
    ELSE NoError

\* MaxItems.validate looking at its own value only
MaxItems_validate_OwnValueOnly(kw, kws) ==
    IF kw.value.t # "int" THEN SchemaError(kw.path)
    ELSE IF kw.value.n < 0 THEN SchemaError(kw.path)
    ELSE NoError

\* MaxItems.validate: with a sibling minItems, that one is validated again
\* and the two values are compared
MaxItems_validate(kw, kws) ==
    IF kw.value.t # "int" THEN SchemaError(kw.path)
    ELSE IF kw.value.n < 0 THEN SchemaError(kw.path)
    ELSE IF InRules(kws, "minItems") THEN
        IF MinItems_validate(RulesGet(kws, "minItems")).exc # "none"
        THEN MinItems_validate(RulesGet(kws, "minItems"))
        ELSE IF kw.value.n < RulesGet(kws, "minItems").value.n THEN SchemaError(kw.path)
        ELSE NoError
    ELSE NoError

\* Minimum.validate
Minimum_validate(kw) ==
    IF kw.value.t \notin {"int", "float"} THEN SchemaError(kw.path) ELSE NoError

\* Maximum.validate: with a sibling minimum, that one is validated again and
\* the two values are compared
Maximum_validate(kw, kws) ==
    IF kw.value.t \notin {"int", "float"} THEN SchemaError(kw.path)
    ELSE IF InRules(kws, "minimum") THEN
        IF Minimum_validate(RulesGet(kws, "minimum")).exc # "none"
        THEN Minimum_validate(RulesGet(kws, "minimum"))
        ELSE IF kw.value.n < RulesGet(kws, "minimum").value.n THEN SchemaError(kw.path)
        ELSE NoError
    ELSE NoError

\* ExclusiveMinimum.validate and ExclusiveMaximum.validate
Exclusive_validate(kw) ==
    IF kw.value.t # "bool" THEN SchemaError(kw.path) ELSE NoError

MinProperties_validate(kw) ==
    IF kw.value.t # "int" THEN SchemaError(kw.path)
    ELSE IF kw.value.n < 0 THEN SchemaError(kw.path)
    ELSE NoError

\* MaxProperties.validate: `type(self.value) == int` raises
MaxProperties_validate(kw, kws) ==
    IF kw.value.t = "int" THEN SchemaError(kw.path)
    ELSE IF ~PyOrdered(kw.value) THEN TypeError
    ELSE IF kw.value.n < 0 THEN SchemaError(kw.path)
    ELSE IF InRules(kws, "minProperties") THEN
        IF MinProperties_validate(RulesGet(kws, "minProperties")).exc # "none"
        THEN MinProperties_validate(RulesGet(kws, "minProperties"))
        ELSE IF kw.value.n < RulesGet(kws, "minProperties").value.n THEN SchemaError(kw.path)
        ELSE NoError
    ELSE NoError

\* MinLength.validate: `type(self.value) == int` raises
MinLength_validate(kw) ==
    IF kw.value.t = "int" THEN SchemaError(kw.path)
    ELSE IF ~PyOrdered(kw.value) THEN TypeError
    ELSE IF kw.value.n < 0 THEN SchemaError(kw.path)
    ELSE NoError

\* MaxLength.validate: `type(self.value) == int` raises
MaxLength_validate(kw, kws) ==
    IF kw.value.t = "int" THEN SchemaError(kw.path)
    ELSE IF ~PyOrdered(kw.value) THEN TypeError
    ELSE IF kw.value.n < 0 THEN SchemaError(kw.path)
    ELSE IF InRules(kws, "minLength") THEN
        IF MinLength_validate(RulesGet(kws, "minLength")).exc # "none"
        THEN MinLength_validate(RulesGet(kws, "minLength"))
        ELSE IF kw.value.n < RulesGet(kws, "minLength").value.n THEN SchemaError(kw.path)
        ELSE NoError
    ELSE NoError

\* Pattern.validate: re.compile of a value that is no string raises
\* TypeError, and only re.error becomes a SchemaError
Pattern_validate(kw) ==
    IF kw.value.t # "str" THEN TypeError
    ELSE IF re_error(kw.value.s) THEN SchemaError(kw.path)
    ELSE NoError

\* Format.valid_formats, the keys
valid_formats == {"date-time", "email", "hostname", "ipv4", "ipv6", "uri"}

\* Format.validate: `self.value not in self.valid_formats` hashes the value
Format_validate(kw) ==
    IF PyUnhashable(kw.value) THEN TypeError
    ELSE IF ~(kw.value.t = "str" /\ kw.value.s \in valid_formats) THEN SchemaError(kw.path)
    ELSE NoError

Required_validate(kw) ==
    LET v == kw.value IN
    IF v.t # "list" THEN SchemaError(kw.path)
    ELSE IF \E i \in 1..Len(v.c) : v.c[i].t # "str" \/ v.c[i].s = "" THEN SchemaError(kw.path)
    ELSE IF Len(v.c) # Cardinality({v.c[i].s : i \in 1..Len(v.c)}) THEN SchemaError(kw.path)
    ELSE NoError

\* keyword.validate(), dispatched on the keyword's class; kws is keyword.rules
validate(kw, kws) ==
    CASE kw.name = "type" -> Type_validate(kw)
      [] kw.name = "enum" -> Enum_validate(kw)
      [] kw.name \in {"allOf", "anyOf", "oneOf"} -> Of_validate(kw)
      [] kw.name = "not" -> Not_validate(kw)
      [] kw.name = "items" -> Items_validate(kw)
      [] kw.name = "additionalItems" -> AdditionalItems_validate(kw)
      [] kw.name = "uniqueItems" -> UniqueItems_validate(kw)
      [] kw.name = "properties" -> Properties_validate(kw)
      [] kw.name = "patternProperties" -> PatternProperties_validate(kw)
      [] kw.name = "additionalProperties" -> AdditionalProperties_validate(kw)
      [] kw.name = "required" -> Required_validate(kw)
      [] kw.name = "minItems" -> MinItems_validate(kw)
      [] kw.name = "maxItems" -> MaxItems_validate(kw, kws)
      [] kw.name = "minimum" -> Minimum_validate(kw)
      [] kw.name = "maximum" -> Maximum_validate(kw, kws)
      [] kw.name \in {"exclusiveMinimum", "exclusiveMaximum"} -> Exclusive_validate(kw)
      [] kw.name = "multipleOf" -> MultipleOf_validate(kw)
      [] kw.name = "minProperties" -> MinProperties_validate(kw)
      [] kw.name = "maxProperties" -> MaxProperties_validate(kw, kws)
      [] kw.name = "minLength" -> MinLength_validate(kw)
      [] kw.name = "maxLength" -> MaxLength_validate(kw, kws)
      [] kw.name = "pattern" -> Pattern_validate(kw)
      [] kw.name = "format" -> Format_validate(kw)
      [] OTHER -> NoError

-----------------------------------------------------------------------------
(* Schema compilation: Schema.program instantiates, validates and prunes   *)
(* the keywords and orders them into a Program; every keyword's compile()  *)
(* then yields its rule (or None), compiling the sub-schemas it holds.     *)

\* a rule: the bound method a keyword's compile() returns, with the
\* attributes of the keyword the method reads
Rule(kw, fn) ==
    [name |-> kw.name, value |-> kw.value, fn |-> fn,
     types |-> {}, vals |-> {}, pkeys |-> <<>>, progs |-> <<>>,
     _items_tuple_programs |-> 0, _properties |-> {}, _patternProperties |-> <<>>]

Compiled(program) == [exc |-> "none", path |-> <<>>, program |-> program]
Failed(err) == [exc |-> err.exc, path |-> err.path, program |-> EmptyProgram]
Lowered(rules) == [exc |-> "none", path |-> <<>>, rules |-> rules]
NotLowered(err) == [exc |-> err.exc, path |-> err.path, rules |-> <<>>]

\* Schema._type_definition
_type_definition(kws) ==
    LET ts == {i \in 1..Len(kws) : kws[i].name = "type"} IN
    IF ts # {} THEN
        LET v == kws[Min(ts)].value IN
        IF v.t # "list" THEN {v.s} ELSE {v.c[i].s : i \in 1..Len(v.c)}
    ELSE {}

\* _delete_unused_keywords with the test inverted: it deletes the keywords
\* whose types meet the declared ones
_delete_unused_keywords_Inverted(kws) ==
    LET type_definition == _type_definition(kws)
        unused(kw) == /\ KeywordType(kw.name) # <<>>
                      /\ Range(KeywordType(kw.name)) \cap type_definition # {}
    IN IF type_definition # {} THEN SelectSeq(kws, LAMBDA kw : ~unused(kw)) ELSE kws

\* Schema._delete_unused_keywords
_delete_unused_keywords(kws) ==
    LET type_definition == _type_definition(kws)
        unused(kw) == /\ KeywordType(kw.name) # <<>>
                      /\ Range(KeywordType(kw.name)) \cap type_definition = {}
    IN IF type_definition # {} THEN SelectSeq(kws, LAMBDA kw : ~unused(kw)) ELSE kws

\* Schema._program: the keywords of the general list
general_rules(kws) == SelectSeq(kws, LAMBDA kw : KeywordType(kw.name) = <<>>)

\* Schema._program: the keywords of type_specific_rules[t], t a Python type
type_specific_rules(kws, t) ==
    LET type_definition == _type_definition(kws)
        listed(kw) == \E i \in 1..Len(KeywordType(kw.name)) :
                         /\ type_definition = {} \/ KeywordType(kw.name)[i] \in type_definition
                         /\ valid_types[KeywordType(kw.name)[i]] = t
    IN SelectSeq(kws, listed)

\* the keywords Schema.program instantiates: the schema's members whose key
\* is in the keyword table, in the schema's order, each with path + [key]
Instantiate(schema, path) ==
    LET known == SelectSeq([i \in 1..Len(schema.keys) |-> i],
                           LAMBDA i : schema.keys[i] \in keywords)
    IN [j \in 1..Len(known) |->
            Keyword(schema.keys[known[j]], schema.c[known[j]],
                    Append(path, PathKey(schema.keys[known[j]])))]

\* the keyword.validate() loop of Schema.program: the first failure is raised
ValidateAll(kws) ==
    LET bad == {i \in 1..Len(kws) : validate(kws[i], kws).exc # "none"} IN
    IF bad = {} THEN NoError ELSE validate(kws[Min(bad)], kws)

\* the position at which Schema._program inserts the Python type t into
\* type_specific_rules (a dict keeps insertion order): that of the first
\* keyword listed under t
TypeRank(kws, t) ==
    Min({i \in 1..Len(kws) : \E j \in 1..Len(KeywordType(kws[i].name)) :
                                  valid_types[KeywordType(kws[i].name)[j]] = t} \cup {Len(kws) + 1})

RECURSIVE compile(_, _)
RECURSIVE CompileEach(_, _, _)
RECURSIVE Keyword_compile(_, _)
RECURSIVE _compile_keywords(_, _, _)

\* [self.schema.compile(item, path) for item in schemas], stopping at the
\* first sub-schema that raises
CompileEach(schemas, paths, i) ==
    IF i > Len(schemas) THEN [exc |-> "none", path |-> <<>>, progs |-> <<>>]
    ELSE LET first == compile(schemas[i], paths[i]) IN
         IF first.exc # "none" THEN [exc |-> first.exc, path |-> first.path, progs |-> <<>>]
         ELSE LET rest == CompileEach(schemas, paths, i + 1) IN
              IF rest.exc # "none" THEN rest
              ELSE [exc |-> "none", path |-> <<>>, progs |-> <<first.program>> \o rest.progs]

NoPaths(schemas) == [i \in 1..Len(schemas) |-> <<>>]

\* Type.compile
Type_compile(kw) ==
    IF kw.value.t = "str"
    THEN Lowered(<<[Rule(kw, "Type.program") EXCEPT !.types = {valid_types[kw.value.s]}]>>)
    ELSE Lowered(<<[Rule(kw, "Type.program_list") EXCEPT
                        !.types = {valid_types[kw.value.c[i].s] : i \in 1..Len(kw.value.c)}]>>)

\* Enum.compile
Enum_compile(kw) ==
    Lowered(<<[Rule(kw, "Enum.program") EXCEPT !.vals = Range(kw.value.c)]>>)

\* AllOf.compile, AnyOf.compile, OneOf.compile
Of_compile(kw, fn) ==
    LET subs == CompileEach(kw.value.c, NoPaths(kw.value.c), 1) IN
    IF subs.exc # "none" THEN NotLowered(subs)
    ELSE Lowered(<<[Rule(kw, fn) EXCEPT !.progs = subs.progs]>>)

\* Not.compile: the rule is the sub-program's own run method
Not_compile(kw) ==
    LET sub == compile(kw.value, <<>>) IN
    IF sub.exc # "none" THEN NotLowered(sub)
    ELSE Lowered(<<[Rule(kw, "Program.run") EXCEPT !.progs = <<sub.program>>]>>)

\* Program.__bool__
Program__bool__(prog) ==
    prog.general # <<>> \/ \E t \in PyTypes : prog.type_specific[t] # <<>>

\* Items.compile
Items_compile(kw) ==
    IF kw.value.t = "dict" THEN
        LET sub == compile(kw.value, <<>>) IN
        IF sub.exc # "none" THEN NotLowered(sub)
        ELSE Lowered(<<[Rule(kw, "Items.program_list") EXCEPT !.progs = <<sub.program>>]>>)
    ELSE
        LET subs == CompileEach(kw.value.c, NoPaths(kw.value.c), 1) IN
        IF subs.exc # "none" THEN NotLowered(subs)
        ELSE Lowered(<<[Rule(kw, "Items.program_tuple") EXCEPT !.progs = subs.progs]>>)

\* AdditionalItems.compile
AdditionalItems_compile(kw, kws) ==
    LET n == IF InRules(kws, "items") /\ RulesGet(kws, "items").value.t = "list"
             THEN Len(RulesGet(kws, "items").value.c) ELSE 0
    IN IF kw.value = JBool(TRUE) THEN Lowered(<<>>)
       ELSE IF kw.value = JBool(FALSE)
       THEN Lowered(<<[Rule(kw, "AdditionalItems.false_program") EXCEPT
                          !._items_tuple_programs = n]>>)
       ELSE LET sub == compile(kw.value, <<>>) IN
            IF sub.exc # "none" THEN NotLowered(sub)
            ELSE IF Program__bool__(sub.program)
            THEN Lowered(<<[Rule(kw, "AdditionalItems.program") EXCEPT
                               !._items_tuple_programs = n, !.progs = <<sub.program>>]>>)
            ELSE Lowered(<<>>)

\* UniqueItems.compile
UniqueItems_compile(kw) ==
    IF kw.value.n # 0 THEN Lowered(<<Rule(kw, "UniqueItems.program")>>) ELSE Lowered(<<>>)

\* Properties.compile
Properties_compile(kw) ==
    LET v == kw.value
        subs == CompileEach(v.c, [i \in 1..Len(v.keys) |-> Append(kw.path, PathKey(v.keys[i]))], 1)
    IN IF subs.exc # "none" THEN NotLowered(subs)
       ELSE Lowered(<<[Rule(kw, "Properties.program") EXCEPT !.pkeys = v.keys, !.progs = subs.progs]>>)

\* PatternProperties.compile: with a sibling `properties`, _properties is
\* set(self.rules.keys()), the names of the sibling keywords
PatternProperties_compile(kw, kws) ==
    LET v == kw.value
        subs == CompileEach(v.c, [i \in 1..Len(v.keys) |-> Append(kw.path, PathKey(v.keys[i]))], 1)
    IN IF subs.exc # "none" THEN NotLowered(subs)
       ELSE Lowered(<<[Rule(kw, "PatternProperties.program") EXCEPT
                          !._properties = IF InRules(kws, "properties")
                                          THEN {kws[i].name : i \in 1..Len(kws)} ELSE {},
                          !.pkeys = v.keys, !.progs = subs.progs]>>)

\* AdditionalProperties.compile
AdditionalProperties_compile(kw, kws) ==
    IF kw.value = JBool(TRUE) THEN Lowered(<<>>)
    ELSE LET _properties == IF InRules(kws, "properties")
                            THEN DictKeySet(RulesGet(kws, "properties").value) ELSE {}
             _patternProperties == IF InRules(kws, "patternProperties")
                                   THEN RulesGet(kws, "patternProperties").value.keys ELSE <<>>
         IN IF kw.value = JBool(FALSE)
            THEN Lowered(<<[Rule(kw, "AdditionalProperties.false_program") EXCEPT
                               !._properties = _properties,
                               !._patternProperties = _patternProperties]>>)
            ELSE LET sub == compile(kw.value, <<>>) IN
                 IF sub.exc # "none" THEN NotLowered(sub)
                 ELSE IF Program__bool__(sub.program)
                 THEN Lowered(<<[Rule(kw, "AdditionalProperties.program") EXCEPT
                                    !._properties = _properties,
                                    !._patternProperties = _patternProperties,
                                    !.progs = <<sub.program>>]>>)
                 ELSE Lowered(<<>>)

\* Required.compile
Required_compile(kw) ==
    IF Len(kw.value.c) # 0 THEN Lowered(<<Rule(kw, "Required.program")>>) ELSE Lowered(<<>>)

\* MinItems.compile and MaxItems.compile
MinItems_compile(kw) == Lowered(<<Rule(kw, "MinItems.program")>>)

MaxItems_compile(kw) == Lowered(<<Rule(kw, "MaxItems.program")>>)

\* self.rules[name].value is True, for a name in self.rules
IsTrue(kws, name) ==
    InRules(kws, name) /\ RulesGet(kws, name).value.t = "bool" /\ RulesGet(kws, name).value.n # 0

\* Minimum.compile with the sibling map always read as without exclusiveMinimum
Minimum_compile_NeverStrict(kw, kws) == Lowered(<<Rule(kw, "Minimum.program")>>)

\* Minimum.compile: the strict or the non-strict method, chosen here
Minimum_compile(kw, kws) ==
    IF IsTrue(kws, "exclusiveMinimum") THEN Lowered(<<Rule(kw, "Minimum.program_strict")>>)
    ELSE Lowered(<<Rule(kw, "Minimum.program")>>)

\* Maximum.compile
Maximum_compile(kw, kws) ==
    IF IsTrue(kws, "exclusiveMaximum") THEN Lowered(<<Rule(kw, "Maximum.program_strict")>>)
    ELSE Lowered(<<Rule(kw, "Maximum.program")>>)

\* ExclusiveMinimum.compile and ExclusiveMaximum.compile: None
Exclusive_compile(kw) == Lowered(<<>>)

\* MultipleOf.compile
MultipleOf_compile(kw) == Lowered(<<Rule(kw, "MultipleOf.program")>>)

\* MinProperties.compile and MinLength.compile: no rule for the value 0
MinProperties_compile(kw) ==
    IF kw.value.n = 0 THEN Lowered(<<>>) ELSE Lowered(<<Rule(kw, "MinProperties.program")>>)

MaxProperties_compile(kw) == Lowered(<<Rule(kw, "MaxProperties.program")>>)

MinLength_compile(kw) ==
    IF kw.value.n = 0 THEN Lowered(<<>>) ELSE Lowered(<<Rule(kw, "MinLength.program")>>)

MaxLength_compile(kw) == Lowered(<<Rule(kw, "MaxLength.program")>>)

\* Pattern.compile
Pattern_compile(kw) == Lowered(<<Rule(kw, "Pattern.program")>>)

\* Format.compile: self.valid_formats[self.value]
Format_compile(kw) ==
    Lowered(<<Rule(kw, CASE kw.value.s = "date-time" -> "Format._datetime_program"
                         [] kw.value.s = "email" -> "Format._email_program"
                         [] kw.value.s = "hostname" -> "Format._hostname_program"
                         [] kw.value.s = "ipv4" -> "Format._ipv4_program"
                         [] kw.value.s = "ipv6" -> "Format._ipv6_program"
                         [] kw.value.s = "uri" -> "Format._uri_program")>>)

\* keyword.compile(), dispatched on the keyword's class; kws is keyword.rules
Keyword_compile(kw, kws) ==
    CASE kw.name = "type" -> Type_compile(kw)
      [] kw.name = "enum" -> Enum_compile(kw)
      [] kw.name = "allOf" -> Of_compile(kw, "AllOf.program")
      [] kw.name = "anyOf" -> Of_compile(kw, "AnyOf.program")
      [] kw.name = "oneOf" -> Of_compile(kw, "OneOf.program")
      [] kw.name = "not" -> Not_compile(kw)
      [] kw.name = "items" -> Items_compile(kw)
      [] kw.name = "additionalItems" -> AdditionalItems_compile(kw, kws)
      [] kw.name = "uniqueItems" -> UniqueItems_compile(kw)
      [] kw.name = "properties" -> Properties_compile(kw)
      [] kw.name = "patternProperties" -> PatternProperties_compile(kw, kws)
      [] kw.name = "additionalProperties" -> AdditionalProperties_compile(kw, kws)
      [] kw.name = "required" -> Required_compile(kw)
      [] kw.name = "minItems" -> MinItems_compile(kw)
      [] kw.name = "maxItems" -> MaxItems_compile(kw)
      [] kw.name = "minimum" -> Minimum_compile(kw, kws)
      [] kw.name = "maximum" -> Maximum_compile(kw, kws)
      [] kw.name \in {"exclusiveMinimum", "exclusiveMaximum"} -> Exclusive_compile(kw)
      [] kw.name = "multipleOf" -> MultipleOf_compile(kw)
      [] kw.name = "minProperties" -> MinProperties_compile(kw)
      [] kw.name = "maxProperties" -> MaxProperties_compile(kw)
      [] kw.name = "minLength" -> MinLength_compile(kw)
      [] kw.name = "maxLength" -> MaxLength_compile(kw)
      [] kw.name = "pattern" -> Pattern_compile(kw)
      [] kw.name = "format" -> Format_compile(kw)
      [] OTHER -> Lowered(<<>>)

\* Program._compile_keywords: compile() of every keyword of one list, in
\* order; a keyword whose compile() yields nothing contributes no rule
_compile_keywords(list, kws, i) ==
    IF i > Len(list) THEN Lowered(<<>>)
    ELSE LET first == Keyword_compile(list[i], kws) IN
         IF first.exc # "none" THEN first
         ELSE LET rest == _compile_keywords(list, kws, i + 1) IN
              IF rest.exc # "none" THEN rest ELSE Lowered(first.rules \o rest.rules)

\* Schema.program refusing the keys that are not in the keyword table
program_UnknownKeyRaises(schema, path) ==
    IF schema.t # "dict" THEN [err |-> SchemaError(<<>>), kws |-> <<>>]
    ELSE IF \E i \in 1..Len(schema.keys) : schema.keys[i] \notin keywords
    THEN [err |-> SchemaError(path), kws |-> <<>>]
    ELSE LET kws == Instantiate(schema, path) IN
         IF ValidateAll(kws).exc # "none" THEN [err |-> ValidateAll(kws), kws |-> <<>>]
         ELSE [err |-> NoError, kws |-> _delete_unused_keywords(kws)]

\* Schema.program with the pruning moved before the validate() loop
program_PrunesFirst(schema, path) ==
    IF schema.t # "dict" THEN [err |-> SchemaError(<<>>), kws |-> <<>>]
    ELSE IF Len(schema.keys) = 0 THEN [err |-> NoError, kws |-> <<>>]
    ELSE LET kws == _delete_unused_keywords(Instantiate(schema, path)) IN
         IF ValidateAll(kws).exc # "none" THEN [err |-> ValidateAll(kws), kws |-> <<>>]
         ELSE [err |-> NoError, kws |-> kws]

\* Schema.program: SchemaError for a non-object, the empty Program for {},
\* else the keywords instantiated, validated and pruned
program(schema, path) ==
    IF schema.t # "dict" THEN [err |-> SchemaError(<<>>), kws |-> <<>>]
    ELSE IF Len(schema.keys) = 0 THEN [err |-> NoError, kws |-> <<>>]
    ELSE LET kws == Instantiate(schema, path) IN
         IF ValidateAll(kws).exc # "none" THEN [err |-> ValidateAll(kws), kws |-> <<>>]
         ELSE [err |-> NoError, kws |-> _delete_unused_keywords(kws)]

\* Schema.compile(schema, path): the Program of the schema with every
\* keyword lowered to its rule
compile(schema, path) ==
    LET p == program(schema, path) IN
    IF p.err.exc # "none" THEN Failed(p.err)
    ELSE LET g == _compile_keywords(general_rules(p.kws), p.kws, 1)
             ts == [t \in PyTypes |-> _compile_keywords(type_specific_rules(p.kws, t), p.kws, 1)]
             bad == {t \in PyTypes : ts[t].exc # "none"}
         IN IF g.exc # "none" THEN Failed(g)
            ELSE IF bad # {}
                 THEN Failed(ts[CHOOSE t \in bad : \A o \in bad : TypeRank(p.kws, t) <= TypeRank(p.kws, o)])
            ELSE Compiled(Program(g.rules, [t \in PyTypes |-> ts[t].rules]))

-----------------------------------------------------------------------------
(* Execution: Program.run invokes the general rules in order and then the  *)
(* rules listed under the instance's exact Python type; a rule appends     *)
(* Error records to the accumulator it is given, or raises.                *)

\* the outcome of running rules: the accumulator and the exception raised
Ran(errs) == [errors |-> errs, exc |-> "none"]
Raised(errs, exc) == [errors |-> errs, exc |-> exc]

\* UniqueItems._is_equal (t1 and t2 are type(data1) and type(data2))
RECURSIVE _is_equal(_, _)
_is_equal(data1, data2) ==
    IF data1.t # data2.t THEN FALSE
    ELSE IF data1.t \notin {"list", "dict"} THEN
        ~(data1.n # data2.n \/ data1.s # data2.s)
    ELSE IF data1.t = "list" THEN
        IF Len(data1.c) # Len(data2.c) THEN FALSE
        ELSE \A i \in 1..Len(data1.c) : _is_equal(data1.c[i], data2.c[i])
    ELSE
        IF DictKeySet(data1) # DictKeySet(data2) THEN FALSE
        ELSE \A i \in 1..Len(data1.keys) : _is_equal(data1.c[i], DictGet(data2, data1.keys[i]))

\* tools.is_equal
RECURSIVE is_equal(_, _)
is_equal(data1, data2) ==
    IF data1.t # data2.t THEN FALSE
    ELSE IF data1.t \notin {"list", "dict"} THEN
        ~(data1.n # data2.n \/ data1.s # data2.s)
    ELSE IF data1.t = "list" THEN
        IF Len(data1.c) # Len(data2.c) THEN FALSE
        ELSE \A i \in 1..Len(data1.c) : is_equal(data1.c[i], data2.c[i])
    ELSE
        IF DictKeySet(data1) # DictKeySet(data2) THEN FALSE
        ELSE \A i \in 1..Len(data1.keys) : is_equal(data1.c[i], DictGet(data2, data1.keys[i]))

\* the loops of UniqueItems.program with the inner bound off by one
\* (`while j < m`): the last element is never compared
RECURSIVE NonUniqueLoop_OffByOne(_, _, _, _)
NonUniqueLoop_OffByOne(value, i, j, result) ==
    LET n == Len(value)
        m == n - 1
    IN IF ~(i < m) THEN result
       ELSE IF ~(j < m) THEN NonUniqueLoop_OffByOne(value, i + 1, i + 2, result)
       ELSE IF j \notin result /\ _is_equal(value[i + 1], value[j + 1])
            THEN NonUniqueLoop_OffByOne(value, i, j + 1, result \cup {j})
            ELSE NonUniqueLoop_OffByOne(value, i, j + 1, result)

\* the nested while loops of UniqueItems.program: the set non_unique_indexes
\* after the iterations (i, j), (i, j+1), ... of the loops, indexes from 0
RECURSIVE NonUniqueLoop(_, _, _, _)
NonUniqueLoop(value, i, j, result) ==
    LET n == Len(value)
        m == n - 1
    IN IF ~(i < m) THEN result
       ELSE IF ~(j < n) THEN NonUniqueLoop(value, i + 1, i + 2, result)
       ELSE IF j \notin result /\ _is_equal(value[i + 1], value[j + 1])
            THEN NonUniqueLoop(value, i, j + 1, result \cup {j})
            ELSE NonUniqueLoop(value, i, j + 1, result)

\* the same loops in tools.non_unique_items
RECURSIVE non_unique_items_loop(_, _, _, _)
non_unique_items_loop(value, i, j, result) ==
    LET n == Len(value)
        m == n - 1
    IN IF ~(i < m) THEN result
       ELSE IF ~(j < n) THEN non_unique_items_loop(value, i + 1, i + 2, result)
       ELSE IF j \notin result /\ is_equal(value[i + 1], value[j + 1])
            THEN non_unique_items_loop(value, i, j + 1, result \cup {j})
            ELSE non_unique_items_loop(value, i, j + 1, result)

\* tools.non_unique_items
non_unique_items(value) ==
    IF Len(value) > 1 THEN non_unique_items_loop(value, 0, 1, {}) ELSE {}

\* sorted(S) for a set of integers
RECURSIVE sorted(_)
sorted(S) == IF S = {} THEN <<>> ELSE <<Min(S)>> \o sorted(S \ {Min(S)})

-----------------------------------------------------------------------------
(* The rules: the program methods of the keyword classes.                  *)

RECURSIVE run(_, _, _, _)
RECURSIVE RunRules(_, _, _, _, _)
RECURSIVE ApplyRule(_, _, _, _)
RECURSIVE AllOfLoop(_, _, _, _, _)
RECURSIVE AnyOfLoop(_, _, _, _, _)
RECURSIVE OneOfLoop(_, _, _, _, _)
RECURSIVE PropertiesLoop(_, _, _, _, _)
RECURSIVE ItemsLoop(_, _, _, _, _, _)
RECURSIVE PatternPropertiesLoop(_, _, _, _, _)
RECURSIVE AdditionalPropertiesLoop(_, _, _, _, _)

\* Type.program
Type_program(rule, path, value, errs) ==
    IF value.t # (CHOOSE t \in rule.types : TRUE) THEN Ran(Append(errs, Error(path, rule)))
    ELSE Ran(errs)

\* Type.program_list
Type_program_list(rule, path, value, errs) ==
    IF value.t \notin rule.types THEN Ran(Append(errs, Error(path, rule))) ELSE Ran(errs)

\* Enum.program: `value not in self._enum_values` hashes value
Enum_program(rule, path, value, errs) ==
    IF PyUnhashable(value) THEN Raised(errs, "TypeError")
    ELSE IF ~(\E e \in rule.vals : PyEqHashable(value, e)) THEN Ran(Append(errs, Error(path, rule)))
    ELSE Ran(errs)

\* AllOf.program: the loop from the i-th program on
AllOfLoop(progs, i, path, value, errs) ==
    IF i > Len(progs) THEN Ran(errs)
    ELSE LET r == run(progs[i], path, value, errs) IN
         IF r.exc # "none" THEN r ELSE AllOfLoop(progs, i + 1, path, value, r.errors)

AllOf_program(rule, path, value, errs) == AllOfLoop(rule.progs, 1, path, value, errs)

\* AnyOf.program: the loop from the i-th program on, errs_ the local `errs`;
\* returned tells that the loop left the method by `return`
AnyOfLoop(progs, i, path, value, errs_) ==
    IF i > Len(progs) THEN [errs |-> errs_, returned |-> FALSE, exc |-> "none"]
    ELSE LET e == run(progs[i], path, value, <<>>) IN
         IF e.exc # "none" THEN [errs |-> errs_, returned |-> FALSE, exc |-> e.exc]
         ELSE IF e.errors = <<>> THEN [errs |-> errs_, returned |-> TRUE, exc |-> "none"]
         ELSE AnyOfLoop(progs, i + 1, path, value, errs_ \o e.errors)

\* AnyOf.program leaving the loop by `break` instead of `return`: the
\* errors of the branches that failed before the match are appended
AnyOf_program_Break(rule, path, value, errs) ==
    LET loop == AnyOfLoop(rule.progs, 1, path, value, <<>>) IN
    IF loop.exc # "none" THEN Raised(errs, loop.exc)
    ELSE Ran(errs \o loop.errs)

\* AnyOf.program handing back its scratch list in place of the caller's
AnyOf_program_ReturnsScratch(rule, path, value, errs) ==
    LET loop == AnyOfLoop(rule.progs, 1, path, value, <<>>) IN
    IF loop.exc # "none" THEN Raised(errs, loop.exc)
    ELSE IF loop.returned THEN Ran(errs)
    ELSE Ran(loop.errs)

AnyOf_program(rule, path, value, errs) ==
    LET loop == AnyOfLoop(rule.progs, 1, path, value, <<>>) IN
    IF loop.exc # "none" THEN Raised(errs, loop.exc)
    ELSE IF loop.returned THEN Ran(errs)
    ELSE Ran(errs \o loop.errs)

\* OneOf.program: the loop from the i-th program on
OneOfLoop(progs, i, path, value, n_successes) ==
    IF i > Len(progs) THEN [n_successes |-> n_successes, exc |-> "none"]
    ELSE LET e == run(progs[i], path, value, <<>>) IN
         IF e.exc # "none" THEN [n_successes |-> n_successes, exc |-> e.exc]
         ELSE IF e.errors = <<>> THEN OneOfLoop(progs, i + 1, path, value, n_successes + 1)
         ELSE OneOfLoop(progs, i + 1, path, value, n_successes)

\* OneOf.program testing `n_successes == 0`: several matches pass
OneOf_program_AtLeastOne(rule, path, value, errs) ==
    LET loop == OneOfLoop(rule.progs, 1, path, value, 0) IN
    IF loop.exc # "none" THEN Raised(errs, loop.exc)
    ELSE IF loop.n_successes = 0 THEN Ran(Append(errs, Error(path, rule)))
    ELSE Ran(errs)

OneOf_program(rule, path, value, errs) ==
    LET loop == OneOfLoop(rule.progs, 1, path, value, 0) IN
    IF loop.exc # "none" THEN Raised(errs, loop.exc)
    ELSE IF loop.n_successes # 1 THEN Ran(Append(errs, Error(path, rule)))
    ELSE Ran(errs)

\* the loops of the array keywords over the elements i, i+1, ..., n-1
\* (indexes from 0): progs[i + 1] runs on value[i] with path + [i]
ItemsLoop(progs, i, n, path, value, errs) ==
    IF ~(i < n) THEN Ran(errs)
    ELSE LET r == run(progs[i + 1], Append(path, PathIdx(i)), value.c[i + 1], errs) IN
         IF r.exc # "none" THEN r ELSE ItemsLoop(progs, i + 1, n, path, value, r.errors)

\* Items.program_list
Items_program_list(rule, path, value, errs) ==
    ItemsLoop([i \in 1..Len(value.c) |-> rule.progs[1]], 0, Len(value.c), path, value, errs)

\* Items.program_tuple stopping one slot early (`while i < n - 1`)
Items_program_tuple_SkipsLast(rule, path, value, errs) ==
    LET n == IF Len(rule.progs) < Len(value.c) THEN Len(rule.progs) ELSE Len(value.c) IN
    ItemsLoop(rule.progs, 0, n - 1, path, value, errs)

\* Items.program_tuple
Items_program_tuple(rule, path, value, errs) ==
    LET n == IF Len(rule.progs) < Len(value.c) THEN Len(rule.progs) ELSE Len(value.c) IN
    ItemsLoop(rule.progs, 0, n, path, value, errs)

\* AdditionalItems.false_program
AdditionalItems_false_program(rule, path, value, errs) ==
    IF Len(value.c) > rule._items_tuple_programs THEN
        Ran(errs \o [j \in 1..(Len(value.c) - rule._items_tuple_programs) |->
                        Error(Append(path, PathIdx(rule._items_tuple_programs + j - 1)), rule)])
    ELSE Ran(errs)

\* AdditionalItems.program
AdditionalItems_program(rule, path, value, errs) ==
    IF Len(value.c) > rule._items_tuple_programs THEN
        ItemsLoop([i \in 1..Len(value.c) |-> rule.progs[1]], rule._items_tuple_programs,
                  Len(value.c), path, value, errs)
    ELSE Ran(errs)

\* the rule Not.compile returns: self._program.run
Not_rule(rule, path, value, errs) == run(rule.progs[1], path, value, errs)

\* UniqueItems.program
UniqueItems_program(rule, path, value, errs) ==
    LET non_unique_indexes == IF Len(value.c) > 1 THEN NonUniqueLoop(value.c, 0, 1, {}) ELSE {}
        order == sorted(non_unique_indexes)
    IN Ran(errs \o [k \in 1..Len(order) |-> Error(Append(path, PathIdx(order[k])), rule)])

\* Properties.program: the loop from the i-th member of the instance on
PropertiesLoop(rule, i, path, value, errs) ==
    IF i > Len(value.keys) THEN Ran(errs)
    ELSE LET k == value.keys[i] IN
         IF k \notin Range(rule.pkeys) THEN PropertiesLoop(rule, i + 1, path, value, errs)
         ELSE LET sub == rule.progs[CHOOSE j \in 1..Len(rule.pkeys) : rule.pkeys[j] = k]
                  r == run(sub, Append(path, PathKey(k)), value.c[i], errs)
              IN IF r.exc # "none" THEN r
                 ELSE PropertiesLoop(rule, i + 1, path, value, r.errors)

Properties_program(rule, path, value, errs) == PropertiesLoop(rule, 1, path, value, errs)

\* PatternProperties.program: the loop from the i-th member of the instance
\* on; the inner loop runs the program of the first pattern that matches the
\* key and breaks
PatternPropertiesLoop(rule, i, path, value, errs) ==
    IF i > Len(value.keys) THEN Ran(errs)
    ELSE LET k == value.keys[i]
             found == {j \in 1..Len(rule.pkeys) : re_match(rule.pkeys[j], k)}
         IN IF k \in rule._properties \/ found = {}
            THEN PatternPropertiesLoop(rule, i + 1, path, value, errs)
            ELSE LET r == run(rule.progs[Min(found)], Append(path, PathKey(k)), value.c[i], errs)
                 IN IF r.exc # "none" THEN r
                    ELSE PatternPropertiesLoop(rule, i + 1, path, value, r.errors)

PatternProperties_program(rule, path, value, errs) ==
    PatternPropertiesLoop(rule, 1, path, value, errs)

\* the keys AdditionalProperties.false_program and .program do not skip
NotSkipped(rule, k) ==
    /\ k \notin rule._properties
    /\ ~\E j \in 1..Len(rule._patternProperties) : re_match(rule._patternProperties[j], k)

\* AdditionalProperties.false_program
AdditionalProperties_false_program(rule, path, value, errs) ==
    LET rest == SelectSeq(value.keys, LAMBDA k : NotSkipped(rule, k)) IN
    Ran(errs \o [j \in 1..Len(rest) |-> Error(Append(path, PathKey(rest[j])), rule)])

\* AdditionalProperties.program: the loop from the i-th member of the instance on
AdditionalPropertiesLoop(rule, i, path, value, errs) ==
    IF i > Len(value.keys) THEN Ran(errs)
    ELSE LET k == value.keys[i] IN
         IF ~NotSkipped(rule, k) THEN AdditionalPropertiesLoop(rule, i + 1, path, value, errs)
         ELSE LET r == run(rule.progs[1], Append(path, PathKey(k)), value.c[i], errs) IN
              IF r.exc # "none" THEN r
              ELSE AdditionalPropertiesLoop(rule, i + 1, path, value, r.errors)

AdditionalProperties_program(rule, path, value, errs) ==
    AdditionalPropertiesLoop(rule, 1, path, value, errs)

\* Required.program reporting at the path of the object, not of the field
Required_program_AtObject(rule, path, value, errs) ==
    LET missing == SelectSeq(rule.value.c, LAMBDA field : ~DictHas(value, field.s)) IN
    Ran(errs \o [k \in 1..Len(missing) |-> Error(path, rule)])

\* Required.program
Required_program(rule, path, value, errs) ==
    LET missing == SelectSeq(rule.value.c, LAMBDA field : ~DictHas(value, field.s)) IN
    Ran(errs \o [k \in 1..Len(missing) |-> Error(Append(path, PathKey(missing[k].s)), rule)])

\* MinItems.program and MaxItems.program (n counts in halves)
MinItems_program(rule, path, value, errs) ==
    IF 2 * Len(value.c) < rule.value.n THEN Ran(Append(errs, Error(path, rule))) ELSE Ran(errs)

MaxItems_program(rule, path, value, errs) ==
    IF 2 * Len(value.c) > rule.value.n THEN Ran(Append(errs, Error(path, rule))) ELSE Ran(errs)

\* Minimum.program and Minimum.program_strict
Minimum_program(rule, path, value, errs) ==
    IF value.n < rule.value.n THEN Ran(Append(errs, Error(path, rule))) ELSE Ran(errs)

Minimum_program_strict(rule, path, value, errs) ==
    IF value.n <= rule.value.n THEN Ran(Append(errs, Error(path, rule))) ELSE Ran(errs)

\* Maximum.program and Maximum.program_strict
Maximum_program(rule, path, value, errs) ==
    IF value.n > rule.value.n THEN Ran(Append(errs, Error(path, rule))) ELSE Ran(errs)

Maximum_program_strict(rule, path, value, errs) ==
    IF value.n >= rule.value.n THEN Ran(Append(errs, Error(path, rule))) ELSE Ran(errs)

\* MultipleOf.program: `value % self.value` raises ZeroDivisionError for 0
MultipleOf_program(rule, path, value, errs) ==
    IF rule.value.n = 0 THEN Raised(errs, "ZeroDivisionError")
    ELSE IF value.n % rule.value.n # 0 THEN Ran(Append(errs, Error(path, rule)))
    ELSE Ran(errs)

\* MinProperties.program and MaxProperties.program (n counts in halves)
MinProperties_program(rule, path, value, errs) ==
    IF 2 * Len(value.keys) < rule.value.n THEN Ran(Append(errs, Error(path, rule))) ELSE Ran(errs)

MaxProperties_program(rule, path, value, errs) ==
    IF 2 * Len(value.keys) > rule.value.n THEN Ran(Append(errs, Error(path, rule))) ELSE Ran(errs)

\* MinLength.program and MaxLength.program
MinLength_program(rule, path, value, errs) ==
    IF 2 * StrLen(value.s) < rule.value.n THEN Ran(Append(errs, Error(path, rule))) ELSE Ran(errs)

MaxLength_program(rule, path, value, errs) ==
    IF 2 * StrLen(value.s) > rule.value.n THEN Ran(Append(errs, Error(path, rule))) ELSE Ran(errs)

\* Pattern.program: `not self._prog.match(value)`
Pattern_program(rule, path, value, errs) ==
    IF ~re_match(rule.value.s, value.s) THEN Ran(Append(errs, Error(path, rule))) ELSE Ran(errs)

\* the loop of Format._ipv4_program from the i-th part on: part[0] of an
\* empty part raises IndexError, the ValueError of int(part) is caught and
\* the loop goes on after the append
RECURSIVE Ipv4Loop(_, _, _, _, _)
Ipv4Loop(parts, i, rule, path, errs) ==
    IF i > Len(parts) THEN Ran(errs)
    ELSE LET part == parts[i] IN
         IF part = <<>> THEN Raised(errs, "IndexError")
         ELSE IF part[1] = "0" /\ Len(part) > 1 THEN Ran(Append(errs, Error(path, rule)))
         ELSE IF int_ValueError(part)
              THEN Ipv4Loop(parts, i + 1, rule, path, Append(errs, Error(path, rule)))
         ELSE IF ~(-1 < int(part) /\ int(part) < 256) THEN Ran(Append(errs, Error(path, rule)))
         ELSE Ipv4Loop(parts, i + 1, rule, path, errs)

\* Format._ipv4_program
Format__ipv4_program(rule, path, value, errs) ==
    LET parts == split(value.s, ".") IN
    IF Len(parts) # 4 THEN Ran(Append(errs, Error(path, rule)))
    ELSE Ipv4Loop(parts, 1, rule, path, errs)

\* rule(path, value, errors)
ApplyRule(rule, path, value, errs) ==
    CASE rule.fn = "Type.program" -> Type_program(rule, path, value, errs)
      [] rule.fn = "Type.program_list" -> Type_program_list(rule, path, value, errs)
      [] rule.fn = "Enum.program" -> Enum_program(rule, path, value, errs)
      [] rule.fn = "AllOf.program" -> AllOf_program(rule, path, value, errs)
      [] rule.fn = "AnyOf.program" -> AnyOf_program(rule, path, value, errs)
      [] rule.fn = "OneOf.program" -> OneOf_program(rule, path, value, errs)
      [] rule.fn = "Program.run" -> Not_rule(rule, path, value, errs)
      [] rule.fn = "Items.program_list" -> Items_program_list(rule, path, value, errs)
      [] rule.fn = "Items.program_tuple" -> Items_program_tuple(rule, path, value, errs)
      [] rule.fn = "AdditionalItems.false_program" ->
            AdditionalItems_false_program(rule, path, value, errs)
      [] rule.fn = "AdditionalItems.program" -> AdditionalItems_program(rule, path, value, errs)
      [] rule.fn = "UniqueItems.program" -> UniqueItems_program(rule, path, value, errs)
      [] rule.fn = "Properties.program" -> Properties_program(rule, path, value, errs)
      [] rule.fn = "PatternProperties.program" -> PatternProperties_program(rule, path, value, errs)
      [] rule.fn = "AdditionalProperties.false_program" ->
            AdditionalProperties_false_program(rule, path, value, errs)
      [] rule.fn = "AdditionalProperties.program" ->
            AdditionalProperties_program(rule, path, value, errs)
      [] rule.fn = "Required.program" -> Required_program(rule, path, value, errs)
      [] rule.fn = "MinItems.program" -> MinItems_program(rule, path, value, errs)
      [] rule.fn = "MaxItems.program" -> MaxItems_program(rule, path, value, errs)
      [] rule.fn = "Minimum.program" -> Minimum_program(rule, path, value, errs)
      [] rule.fn = "Minimum.program_strict" -> Minimum_program_strict(rule, path, value, errs)
      [] rule.fn = "Maximum.program" -> Maximum_program(rule, path, value, errs)
      [] rule.fn = "Maximum.program_strict" -> Maximum_program_strict(rule, path, value, errs)
      [] rule.fn = "MultipleOf.program" -> MultipleOf_program(rule, path, value, errs)
      [] rule.fn = "MinProperties.program" -> MinProperties_program(rule, path, value, errs)
      [] rule.fn = "MaxProperties.program" -> MaxProperties_program(rule, path, value, errs)
      [] rule.fn = "MinLength.program" -> MinLength_program(rule, path, value, errs)
      [] rule.fn = "MaxLength.program" -> MaxLength_program(rule, path, value, errs)
      [] rule.fn = "Pattern.program" -> Pattern_program(rule, path, value, errs)
      [] rule.fn = "Format._ipv4_program" -> Format__ipv4_program(rule, path, value, errs)

\* the dispatch by isinstance: a bool, an instance of int, also runs the
\* rules listed under int
RulesFor_Isinstance(prog, value) ==
    prog.general
    \o (IF value.t = "bool" THEN prog.type_specific["bool"] \o prog.type_specific["int"]
        ELSE prog.type_specific[value.t])

\* the rules a Program runs on value: the general ones, then the ones under
\* `type(value) == t`
RulesFor(prog, value) == prog.general \o prog.type_specific[value.t]

\* the rules from the i-th on, each on the accumulator the previous one left
RunRules(rules, i, path, value, errs) ==
    IF i > Len(rules) THEN Ran(errs)
    ELSE LET r == ApplyRule(rules[i], path, value, errs) IN
         IF r.exc # "none" THEN r ELSE RunRules(rules, i + 1, path, value, r.errors)

\* Program.run(path, value, errors)
run(prog, path, value, errs) == RunRules(RulesFor(prog, value), 1, path, value, errs)

-----------------------------------------------------------------------------
(* The function generated for a Program, and the rewriting of its type     *)
(* tests. A statement is an `if` on the type of `value`, the inlined body  *)
(* of a rule (no rule but Type tests `type(value)`), the errors.append of  *)
(* the Type rule, or the assignment of the hoisted local.                  *)

\* ast.Compare(left, ops, comparators) and what the Optimizer rewrites it to;
\* the comparator is a type, or for Type.program_list a set of types
Compare(left, op, types, is_set) ==
    [left |-> left, op |-> op, types |-> types, is_set |-> is_set]

If(test, body, orelse) ==
    [node |-> "If", test |-> test, rule |-> <<>>, body |-> body, orelse |-> orelse]
Inlined(rule) ==
    [node |-> "Rule", test |-> <<>>, rule |-> rule, body |-> <<>>, orelse |-> <<>>]
ErrorsAppend(rule) ==
    [node |-> "errors.append", test |-> <<>>, rule |-> rule, body |-> <<>>, orelse |-> <<>>]
Assign(target) ==
    [node |-> "Assign", test |-> <<>>, rule |-> target, body |-> <<>>, orelse |-> <<>>]

\* Compiler.compile_fn: the body of the rule's function
compile_fn(rule) ==
    CASE rule.fn = "Type.program" ->
            <<If(Compare("type(value)", "NotEq", rule.types, FALSE), <<ErrorsAppend(rule)>>, <<>>)>>
      [] rule.fn = "Type.program_list" ->
            <<If(Compare("type(value)", "NotIn", rule.types, TRUE), <<ErrorsAppend(rule)>>, <<>>)>>
      [] OTHER -> <<Inlined(rule)>>

RECURSIVE CompileFns(_, _)
CompileFns(rules, i) ==
    IF i > Len(rules) THEN <<>> ELSE compile_fn(rules[i]) \o CompileFns(rules, i + 1)

\* the types with rules of their own, one `if type(value) == t` each; the
\* tests exclude one another, so their order does not change what runs
TypeBlocks(prog) ==
    SelectSeq(<<"NoneType", "bool", "int", "float", "str", "list", "dict">>,
              LAMBDA t : prog.type_specific[t] # <<>>)

\* the if / elif chain of Compiler.ast_body from the i-th type on
RECURSIVE TypeChain(_, _, _)
TypeChain(prog, ts, i) ==
    IF i > Len(ts) THEN <<>>
    ELSE <<If(Compare("type(value)", "Eq", {ts[i]}, FALSE),
              CompileFns(prog.type_specific[ts[i]], 1),
              TypeChain(prog, ts, i + 1))>>

\* Compiler.ast_body
ast_body(prog) == CompileFns(prog.general, 1) \o TypeChain(prog, TypeBlocks(prog), 1)

\* the test both passes look for: an `if` comparing type(value)
IsTypeCalling(stmt) == stmt.node = "If" /\ stmt.test.left = "type(value)"

\* Optimizer._count_type_calling, and Compiler.count_type_calling on a body
\* whose only calls of type(value) are those tests
RECURSIVE _count_type_calling(_, _)
_count_type_calling(body, i) ==
    IF i > Len(body) THEN 0
    ELSE (IF IsTypeCalling(body[i]) THEN 1 ELSE 0)
         + _count_type_calling(body[i].body, 1)
         + _count_type_calling(body[i].orelse, 1)
         + _count_type_calling(body, i + 1)

\* Optimizer.__replace_type_calling: the rewritten test
Optimizer__replace_type_calling(test, count) ==
    IF count = 1
    THEN IF test.op \in {"NotEq", "NotIn"}
         THEN [test EXCEPT !.left = "isinstance", !.op = "Not"]
         ELSE [test EXCEPT !.left = "isinstance", !.op = "Call"]
    ELSE IF count > 1 THEN [test EXCEPT !.left = "type_value"]
    ELSE test

\* Optimizer._replace_type_calling on the statements from the i-th on;
\* `added` is self._additional_code: whether the local has been assigned
RECURSIVE _replace_type_calling(_, _, _, _)
_replace_type_calling(body, i, count, added) ==
    IF i > Len(body) THEN [body |-> <<>>, added |-> added]
    ELSE LET stmt == body[i]
             hit == IsTypeCalling(stmt)
             additional_code == IF hit /\ count > 1 /\ ~added THEN <<Assign("type_value")>>
                                ELSE <<>>
             added1 == added \/ (hit /\ count > 1)
             inner == _replace_type_calling(stmt.body, 1, count, added1)
             other == _replace_type_calling(stmt.orelse, 1, count, inner.added)
             rest == _replace_type_calling(body, i + 1, count, other.added)
             out == [stmt EXCEPT
                       !.test = IF hit THEN Optimizer__replace_type_calling(stmt.test, count)
                                ELSE stmt.test,
                       !.body = inner.body,
                       !.orelse = other.body]
         IN [body |-> additional_code \o <<out>> \o rest.body, added |-> rest.added]

\* Optimizer._type_calling
Optimizer_type_calling(body) ==
    _replace_type_calling(body, 1, _count_type_calling(body, 1), FALSE).body

\* Compiler.replace_type_calling: every type(value) becomes the local
RECURSIVE replace_type_calling(_, _)
replace_type_calling(body, i) ==
    IF i > Len(body) THEN <<>>
    ELSE LET stmt == body[i] IN
         <<[stmt EXCEPT
              !.test = IF IsTypeCalling(stmt) THEN [stmt.test EXCEPT !.left = "type_value"]
                       ELSE stmt.test,
              !.body = replace_type_calling(stmt.body, 1),
              !.orelse = replace_type_calling(stmt.orelse, 1)]>>
         \o replace_type_calling(body, i + 1)

\* Compiler.optimize_type_calling
optimize_type_calling(body) ==
    IF _count_type_calling(body, 1) > 1
    THEN <<Assign("type_value")>> \o replace_type_calling(body, 1)
    ELSE body

\* isinstance(value, t): a bool is an instance of int
isinstance(value, t) == value.t = t \/ (t = "int" /\ value.t = "bool")

\* the outcome of a test: its truth value, or the exception it raises
\* (isinstance refuses a set; an unassigned local is an UnboundLocalError)
Tested(bool) == [value |-> bool, exc |-> "none"]
TestRaised(exc) == [value |-> FALSE, exc |-> exc]
EvalTest(test, value, bound) ==
    LET single == CHOOSE t \in test.types : TRUE
        compare(op) == CASE op = "Eq" -> ~test.is_set /\ value.t = single
                         [] op = "NotEq" -> test.is_set \/ value.t # single
                         [] op = "NotIn" -> value.t \notin test.types
    IN CASE test.left = "type(value)" -> Tested(compare(test.op))
         [] test.left = "type_value" ->
               IF bound THEN Tested(compare(test.op)) ELSE TestRaised("UnboundLocalError")
         [] test.left = "isinstance" ->
               IF test.is_set THEN TestRaised("TypeError")
               ELSE Tested(IF test.op = "Not" THEN ~isinstance(value, single)
                           ELSE isinstance(value, single))

\* the generated function run on value: the statements from the i-th on
RECURSIVE Exec(_, _, _, _, _, _)
Exec(body, i, path, value, errs, bound) ==
    IF i > Len(body) THEN [errors |-> errs, exc |-> "none", bound |-> bound]
    ELSE LET stmt == body[i] IN
         CASE stmt.node = "Assign" -> Exec(body, i + 1, path, value, errs, TRUE)
           [] stmt.node = "errors.append" ->
                 Exec(body, i + 1, path, value, Append(errs, Error(path, stmt.rule)), bound)
           [] stmt.node = "Rule" ->
                 LET r == ApplyRule(stmt.rule, path, value, errs) IN
                 IF r.exc # "none" THEN [errors |-> r.errors, exc |-> r.exc, bound |-> bound]
                 ELSE Exec(body, i + 1, path, value, r.errors, bound)
           [] stmt.node = "If" ->
                 LET t == EvalTest(stmt.test, value, bound) IN
                 IF t.exc # "none" THEN [errors |-> errs, exc |-> t.exc, bound |-> bound]
                 ELSE LET r == Exec(IF t.value THEN stmt.body ELSE stmt.orelse,
                                    1, path, value, errs, bound) IN
                      IF r.exc # "none" THEN r
                      ELSE Exec(body, i + 1, path, value, r.errors, r.bound)

\* Optimizer._error_handling: it calls self._count_error_appending(body)
\* without the parent_is_loop argument the method requires, which raises
\* TypeError before any statement is counted or rewritten
_error_handling(body) == [body |-> body, exc |-> "TypeError"]

\* Optimizer.run on the function of a non-empty body: the type tests are
\* rewritten, then the error appending
Optimizer_run(body) == _error_handling(Optimizer_type_calling(body))

\* Program.compile(body_only=False): only a non-empty body is optimized
Program_compile(prog) ==
    IF ast_body(prog) # <<>> THEN Optimizer_run(ast_body(prog))
    ELSE [body |-> <<>>, exc |-> "none"]

\* program(value) of a generated body: the errors it returns or its exception
Function(body, value) ==
    LET r == Exec(body, 1, <<>>, value, <<>>, FALSE) IN [errors |-> r.errors, exc |-> r.exc]

-----------------------------------------------------------------------------
(* The Validator.                                                          *)

\* Validator.schemas: the dialect URIs
schemas == {"http://json-schema.org/schema#", "http://json-schema.org/draft-04/schema#"}

\* schema_definition.get("$schema", "http://json-schema.org/draft-04/schema#")
Dialect(definition) ==
    IF DictHas(definition, "$schema") THEN DictGet(definition, "$schema")
    ELSE JStr("http://json-schema.org/draft-04/schema#")

\* Validator._schema: self.schemas[dialect] hashes the dialect, and only a
\* KeyError becomes a SchemaError
_schema(dialect) ==
    IF PyUnhashable(dialect) THEN TypeError
    ELSE IF dialect.t = "str" /\ dialect.s \in schemas THEN NoError
    ELSE SchemaError(<<PathKey("$schema")>>)

\* Validator.__init__: the exception it raises and the program it stores;
\* schema_definition.get is an AttributeError for a value that is no dict
Validator__init__(definition) ==
    IF definition.t # "dict" THEN Failed(AttributeError)
    ELSE IF _schema(Dialect(definition)).exc # "none" THEN Failed(_schema(Dialect(definition)))
    ELSE compile(definition, <<>>)

\* the grouping loop of Validator.__call__ from the i-th error on; e is the
\* defaultdict as the sequence of its items, in insertion order
RECURSIVE GroupLoop(_, _, _)
GroupLoop(errs, i, e) ==
    IF i > Len(errs) THEN e
    ELSE LET error == errs[i]
             entry == [keyword |-> error.keyword, value |-> error.value]
             at == {g \in 1..Len(e) : e[g].path = error.path}
         IN IF at = {}
            THEN GroupLoop(errs, i + 1, Append(e, [path |-> error.path, errors |-> <<entry>>]))
            ELSE GroupLoop(errs, i + 1,
                           [e EXCEPT ![Min(at)].errors = Append(e[Min(at)].errors, entry)])

\* the argument of ValidationError in Validator.__call__
Groups(errs) == GroupLoop(errs, 1, <<>>)

-----------------------------------------------------------------------------
(* The inputs: schema definitions and instances.                           *)

\* sequences over S of length lo..hi
SeqsOf(S, lo, hi) == UNION {[1..k -> S] : k \in lo..hi}

Schema1(key, value) == JDict(<<key>>, <<value>>)
TypeSchema(name) == Schema1("type", JStr(name))
StrList(names) == JList([i \in 1..Len(names) |-> JStr(names[i])])

\* the schemas used as branches and sub-schemas
Leaves ==
    {JDict(<<>>, <<>>), TypeSchema("integer"), TypeSchema("number"), TypeSchema("string"),
     Schema1("enum", JList(<<JInt(1)>>)), Schema1("required", StrList(<<"a">>))}

TypeValues ==
    {JStr(name) : name \in DOMAIN valid_types} \cup
    {JStr("float"), JInt(3), StrList(<<>>), StrList(<<"integer", "string">>),
     StrList(<<"number", "null">>), StrList(<<"integer", "integer">>),
     StrList(<<"integer", "int">>), JList(<<JStr("integer"), JInt(3)>>)}

EnumValues ==
    {JList(<<JInt(1)>>), JList(<<JInt(1), JStr("a")>>), JList(<<JBool(TRUE)>>),
     JList(<<JFloat(3), JNull>>), JList(<<JStr("a"), JStr("x")>>),
     JList(<<JInt(1), JFloat(2)>>), JList(<<JInt(1), JInt(1)>>),
     JList(<<JList(<<JInt(1)>>)>>), JList(<<JList(<<JInt(1)>>), JList(<<JInt(1)>>)>>),
     JList(<<JInt(1), JDict(<<"a">>, <<JInt(1)>>)>>),
     JList(<<>>), JStr("a")}

RequiredValues ==
    {StrList(<<"a", "b">>), StrList(<<"b", "a">>), StrList(<<"a">>), StrList(<<"b">>),
     StrList(<<>>), StrList(<<"a", "a">>), StrList(<<"a", "">>), JStr("a")}

UniqueItemsValues == {JBool(TRUE), JBool(FALSE), JInt(1)}

PropertiesValues ==
    {JDict(<<"a">>, <<TypeSchema("string")>>),
     JDict(<<"a", "b">>, <<TypeSchema("string"), TypeSchema("integer")>>),
     JDict(<<"a">>, <<Schema1("required", StrList(<<"a", "b">>))>>),
     JDict(<<"a">>, <<TypeSchema("float")>>),
     JDict(<<"a">>, <<JInt(3)>>), JDict(<<>>, <<>>), JInt(3)}

\* schemas of one keyword
Atoms ==
    {JDict(<<>>, <<>>)}
    \cup {Schema1("type", v) : v \in TypeValues}
    \cup {Schema1("enum", v) : v \in EnumValues}
    \cup {Schema1("required", v) : v \in RequiredValues}
    \cup {Schema1("uniqueItems", v) : v \in UniqueItemsValues}
    \cup {Schema1("properties", v) : v \in PropertiesValues}

\* schemas of one composition keyword over the leaves
Compositions ==
    {Schema1(key, JList(branches)) :
        key \in {"allOf", "anyOf", "oneOf"}, branches \in SeqsOf(Leaves, 0, MaxBranches)}
    \cup {Schema1("not", leaf) : leaf \in Leaves}
    \cup {Schema1(key, v) : key \in {"allOf", "anyOf", "oneOf", "not"},
                            v \in {JInt(3), JList(<<JInt(3)>>), JList(<<TypeSchema("float")>>)}}

\* a schema with one more member in front
Prefixed(key, value, schema) == JDict(<<key>> \o schema.keys, <<value>> \o schema.c)

\* the scenario schemas of the specification
Scenarios ==
    {JDict(<<"type", "properties", "required">>,
           <<JStr("object"), JDict(<<"a">>, <<TypeSchema("string")>>), StrList(<<"a", "b">>)>>),
     JDict(<<"type", "uniqueItems">>, <<JStr("array"), JBool(TRUE)>>),
     JDict(<<"type", "required">>, <<JStr("string"), StrList(<<"a">>)>>),
     JDict(<<"type", "enum">>, <<JStr("string"), JList(<<JStr("a")>>)>>)}

DialectValues ==
    {JStr("http://json-schema.org/schema#"), JStr("http://json-schema.org/draft-04/schema#"),
     JStr("http://json-schema.org/draft-07/schema#"), JStr(""), JInt(4), JNull,
     JList(<<>>), JDict(<<>>, <<>>)}

\* the schemas of the composition keywords, alone and after a `type` member
\* that fills the accumulator before the composition rule runs
CompositionSchemas ==
    Compositions \cup {Prefixed("type", JStr("string"), schema) : schema \in Compositions}

\* the other schemas
KeywordSchemas ==
    Atoms \cup Scenarios
    \cup {Prefixed("$schema", v, schema) :
            v \in DialectValues, schema \in {JDict(<<>>, <<>>), TypeSchema("integer"), TypeSchema("float")}}

\* the schemas of the array keywords `items` and `additionalItems`
ItemLeaves == {TypeSchema("integer"), Schema1("enum", JList(<<JInt(1)>>))}

ItemsValues ==
    ItemLeaves \cup {JDict(<<>>, <<>>)}
    \cup {JList(tuple) : tuple \in SeqsOf(ItemLeaves, 0, MaxTuple)}
    \cup {JInt(3), JList(<<TypeSchema("integer"), JInt(3)>>), JList(<<TypeSchema("float")>>)}

AdditionalItemsValues ==
    {JBool(FALSE), JBool(TRUE), JDict(<<>>, <<>>), TypeSchema("integer"),
     Schema1("enum", JList(<<JInt(1)>>)), JInt(3)}

ArraySchemas ==
    {Schema1("items", v) : v \in ItemsValues}
    \cup {Schema1("additionalItems", v) : v \in AdditionalItemsValues}
    \cup {JDict(<<"items", "additionalItems">>, <<v, w>>) :
             v \in ItemsValues, w \in AdditionalItemsValues}
    \cup {JDict(<<"additionalItems", "items">>, <<w, v>>) :
             v \in ItemsValues, w \in AdditionalItemsValues}

\* the schemas of the object keywords `properties`, `patternProperties`
\* and `additionalProperties`
PatternPropertiesValues ==
    {JDict(<<"a">>, <<TypeSchema("integer")>>),
     JDict(<<"b">>, <<TypeSchema("integer")>>),
     JDict(<<"a", "ab">>, <<TypeSchema("integer"), TypeSchema("string")>>),
     JDict(<<"ab", "a">>, <<Schema1("enum", JList(<<JInt(1)>>)), TypeSchema("integer")>>),
     JDict(<<"(">>, <<TypeSchema("integer")>>), JDict(<<"a">>, <<JInt(3)>>),
     JDict(<<"a">>, <<TypeSchema("float")>>), JDict(<<>>, <<>>), JInt(3)}

AdditionalPropertiesValues ==
    {JBool(FALSE), JBool(TRUE), JDict(<<>>, <<>>), TypeSchema("integer"),
     Schema1("enum", JList(<<JInt(1)>>)), JInt(3)}

\* the members of a schema: the keys that have a value, in the given order
Members(keys, values) ==
    LET present == SelectSeq([i \in 1..Len(keys) |-> i], LAMBDA i : values[i] # JNull) IN
    JDict([j \in 1..Len(present) |-> keys[present[j]]],
          [j \in 1..Len(present) |-> values[present[j]]])

ObjectSchemas ==
    {Members(<<"properties", "patternProperties", "additionalProperties">>, <<p, q, r>>) :
        p \in {JNull, JDict(<<"a">>, <<TypeSchema("string")>>)},
        q \in PatternPropertiesValues \cup {JNull},
        r \in AdditionalPropertiesValues \cup {JNull}}
    \cup
    {Members(<<"additionalProperties", "patternProperties", "properties">>, <<r, q, p>>) :
        p \in {JNull, JDict(<<"a">>, <<TypeSchema("string")>>)},
        q \in PatternPropertiesValues \cup {JNull},
        r \in AdditionalPropertiesValues \cup {JNull}}

\* the schemas of the string keywords and of the member counts
PatternValues == {JStr("a"), JStr("b"), JStr("ab"), JStr(""), JStr("("), JInt(3), JList(<<>>)}

FormatValues == {JStr("ipv4"), JStr("ipv5"), JInt(3), JList(<<JStr("ipv4")>>)}

\* the values of minLength, maxLength, minProperties and maxProperties
LengthValues ==
    {JInt(0), JInt(1), JInt(2), JInt(-1), JFloat(3), JFloat(-3), JFloat(0), JBool(TRUE),
     JStr("a"), JNull}

StringSchemas ==
    {Schema1("pattern", v) : v \in PatternValues}
    \cup {Schema1("format", v) : v \in FormatValues}
    \cup {Prefixed(key, v, schema) :
             key \in {"type", "enum"}, v \in {JStr("integer"), JList(<<JInt(1)>>)},
             schema \in {Schema1("pattern", JStr("b")), Schema1("format", JStr("ipv4"))}}

LengthSchemas ==
    {Schema1(key, v) : key \in {"minLength", "maxLength", "minProperties", "maxProperties"},
                       v \in LengthValues}
    \cup {JDict(<<"minLength", "maxLength">>, <<v, w>>) : v, w \in LengthValues}
    \cup {JDict(<<"maxLength", "minLength">>, <<w, v>>) : v, w \in LengthValues}
    \cup {JDict(<<"minProperties", "maxProperties">>, <<v, w>>) : v, w \in LengthValues}
    \cup {JDict(<<"maxProperties", "minProperties">>, <<w, v>>) : v, w \in LengthValues}

\* the schemas of `multipleOf`, alone and with a `type`
MultipleOfValues == {JInt(0), JInt(2), JInt(3), JInt(-1), JFloat(3), JBool(TRUE), JStr("a")}

NumberTypes ==
    {JStr("integer"), JStr("number"), JStr("string"), StrList(<<"integer", "string">>),
     StrList(<<"integer", "number">>), StrList(<<"boolean", "integer">>)}

NumberSchemas ==
    {Schema1("multipleOf", v) : v \in MultipleOfValues}
    \cup {JDict(<<"type", "multipleOf">>, <<t, v>>) : t \in NumberTypes, v \in {JInt(0), JInt(2)}}
    \cup {JDict(<<"multipleOf", "type">>, <<v, t>>) : t \in NumberTypes, v \in {JInt(0), JInt(2)}}
    \cup {JDict(<<"enum", "type", "multipleOf">>, <<JList(<<JInt(2)>>), t, JInt(2)>>) :
             t \in NumberTypes}

\* the schemas of the bound keywords, alone, in pairs in both key orders,
\* and under a `type`
Both(k1, v1, k2, v2) == {JDict(<<k1, k2>>, <<v1, v2>>), JDict(<<k2, k1>>, <<v2, v1>>)}

ItemsBounds == {JInt(0), JInt(1), JInt(2), JInt(-1), JBool(TRUE), JStr("a")}
NumberBounds == {JInt(1), JInt(2), JFloat(3), JBool(TRUE), JStr("a")}
ExclusiveValues == {JBool(TRUE), JBool(FALSE), JInt(1)}
BoundTypes == {JStr("integer"), JStr("number"), JStr("string"), JStr("array"),
               StrList(<<"integer", "number">>), StrList(<<"string", "integer">>)}

BoundSchemas ==
    {Schema1(key, v) : key \in {"minItems", "maxItems"}, v \in ItemsBounds}
    \cup {Schema1(key, v) : key \in {"minimum", "maximum"}, v \in NumberBounds}
    \cup {Schema1(key, v) : key \in {"exclusiveMinimum", "exclusiveMaximum"}, v \in ExclusiveValues}
    \cup UNION {Both("minItems", v, "maxItems", w) : v, w \in ItemsBounds}
    \cup UNION {Both("minimum", v, "maximum", w) : v, w \in NumberBounds}
    \cup UNION {Both("minimum", JInt(2), "exclusiveMinimum", e) : e \in ExclusiveValues}
    \cup UNION {Both("maximum", JInt(2), "exclusiveMaximum", e) : e \in ExclusiveValues}
    \cup UNION {Both("type", t, "minItems", v) : t \in BoundTypes, v \in {JInt(1), JInt(-1)}}
    \cup UNION {Both("type", t, "minimum", v) : t \in BoundTypes, v \in {JInt(2), JStr("a")}}
    \cup {JDict(<<"type", "minimum", "maximum">>, <<t, JInt(2), JInt(3)>>) : t \in BoundTypes}
    \cup {JDict(<<"minimum", "exclusiveMinimum", "maximum", "exclusiveMaximum">>,
                 <<JInt(1), e, JInt(3), f>>) : e, f \in {JBool(TRUE), JBool(FALSE)}}

BoundInstances ==
    {JNull, JBool(TRUE), JBool(FALSE), JInt(1), JInt(2), JInt(3), JInt(4), JFloat(2), JFloat(3),
     JFloat(4), JFloat(7), JStr("x"), JList(<<>>), JList(<<JInt(1)>>), JList(<<JInt(1), JInt(2)>>),
     JList(<<JInt(1), JInt(2), JInt(3)>>)}

\* schemas with keys that are not in the keyword table, before and after
\* the keywords, and values that are no schema object
Suffixed(schema, key, value) == JDict(Append(schema.keys, key), Append(schema.c, value))

UnknownKeyBases ==
    Scenarios
    \cup {JDict(<<>>, <<>>), TypeSchema("integer"), Schema1("type", JInt(3)),
          Schema1("minItems", JInt(-1)), Schema1("enum", JList(<<JInt(1)>>)),
          Schema1("allOf", JList(<<JDict(<<"title">>, <<JStr("x")>>)>>)),
          Schema1("not", JDict(<<"default", "type">>, <<JInt(1), JStr("string")>>))}

UnknownKeySchemas ==
    {Prefixed("title", JStr("x"), schema) : schema \in UnknownKeyBases}
    \cup {Suffixed(schema, "default", JInt(1)) : schema \in UnknownKeyBases}
    \cup {Prefixed("title", JStr("x"), Suffixed(schema, "definitions", JDict(<<>>, <<>>))) :
             schema \in UnknownKeyBases}
    \cup {JList(<<>>), JList(<<JDict(<<>>, <<>>)>>), JStr("a"), JInt(1), JBool(TRUE), JNull}

UnknownKeyInstances ==
    {JNull, JBool(TRUE), JInt(1), JFloat(3), JStr("a"), JList(<<>>), JList(<<JInt(1), JInt(1)>>),
     JDict(<<>>, <<>>), JDict(<<"a">>, <<JInt(3)>>)}

\* schemas with a sub-schema under each keyword that holds sub-schemas, the
\* sub-schema valid or with an invalid keyword, one and two levels deep
SubSchemas == {TypeSchema("string"), Schema1("type", JInt(3)), Schema1("minItems", JInt(-1))}

Under(schema) ==
    {Schema1("properties", JDict(<<"a">>, <<schema>>)),
     Schema1("patternProperties", JDict(<<"a">>, <<schema>>)),
     Schema1("items", schema),
     Schema1("items", JList(<<JDict(<<>>, <<>>), schema>>)),
     JDict(<<"items", "additionalItems">>, <<JList(<<>>), schema>>),
     Schema1("additionalProperties", schema),
     Schema1("allOf", JList(<<JDict(<<>>, <<>>), schema>>)),
     Schema1("anyOf", JList(<<schema>>)),
     Schema1("oneOf", JList(<<schema>>)),
     Schema1("not", schema)}

NestedSchemas ==
    LET one == UNION {Under(schema) : schema \in SubSchemas}
        two == UNION {Under(schema) : schema \in Under(Schema1("type", JInt(3)))}
    IN one \cup two \cup {Prefixed("type", JStr("object"), schema) : schema \in one}

NestedInstances ==
    {JInt(1), JStr("a"), JList(<<JInt(1), JStr("a")>>), JDict(<<"a">>, <<JInt(1)>>)}

SchemaDefinitions ==
    NestedSchemas \cup KeywordSchemas \cup CompositionSchemas \cup ArraySchemas \cup ObjectSchemas
    \cup StringSchemas \cup LengthSchemas \cup NumberSchemas \cup BoundSchemas
    \cup UnknownKeySchemas

Scalars ==
    {JNull, JBool(TRUE), JBool(FALSE), JInt(1), JInt(2), JInt(3), JFloat(2), JFloat(3),
     JStr("a"), JStr("x")}

IntArrays == {JList(c) : c \in SeqsOf({JInt(1), JInt(2)}, 0, MaxArrLen)}

MixedElements ==
    {JInt(1), JBool(TRUE), JFloat(2), JList(<<JInt(1)>>),
     JDict(<<"a", "b">>, <<JInt(1), JInt(2)>>), JDict(<<"b", "a">>, <<JInt(2), JInt(1)>>)}

MixedArrays == {JList(c) : c \in SeqsOf(MixedElements, 1, MaxMixedLen)}

Objects ==
    {JDict(<<>>, <<>>), JDict(<<"a">>, <<JInt(3)>>), JDict(<<"a">>, <<JStr("x")>>),
     JDict(<<"b">>, <<JInt(1)>>), JDict(<<"a", "b">>, <<JInt(3), JInt(1)>>),
     JDict(<<"b", "a">>, <<JInt(1), JInt(3)>>), JDict(<<"a", "b">>, <<JStr("x"), JInt(1)>>),
     JDict(<<"a">>, <<JDict(<<"b">>, <<JInt(1)>>)>>), JDict(<<"c">>, <<JNull>>)}

Instances == Scalars \cup IntArrays \cup MixedArrays \cup Objects

\* the instances the composition schemas are called on
CompositionInstances ==
    Scalars \cup {JList(<<>>), JList(<<JInt(1)>>), JDict(<<>>, <<>>), JDict(<<"a">>, <<JInt(3)>>)}

\* the instances the array schemas are called on
ArrayInstances ==
    IntArrays
    \cup {JList(<<JStr("a")>>), JList(<<JInt(1), JStr("a")>>), JList(<<JStr("a"), JInt(1), JInt(1)>>),
          JList(<<JInt(1), JList(<<JInt(1)>>)>>), JList(<<JList(<<JInt(1)>>), JInt(2), JInt(2)>>),
          JStr("a"), JInt(1), JDict(<<>>, <<>>)}

\* the instances the object schemas are called on
ObjectInstances ==
    {JDict(<<>>, <<>>), JDict(<<"a">>, <<JInt(1)>>), JDict(<<"a">>, <<JStr("x")>>),
     JDict(<<"ab">>, <<JInt(1)>>), JDict(<<"ab">>, <<JFloat(3)>>), JDict(<<"b">>, <<JStr("x")>>),
     JDict(<<"ba">>, <<JInt(1)>>), JDict(<<"c">>, <<JStr("x")>>),
     JDict(<<"a", "ab">>, <<JInt(1), JStr("x")>>), JDict(<<"ab", "c">>, <<JFloat(3), JStr("x")>>),
     JDict(<<"c", "a", "x">>, <<JNull, JStr("x"), JFloat(3)>>),
     JDict(<<"ab">>, <<JList(<<JInt(1)>>)>>), JStr("a"), JInt(1), JList(<<>>)}

\* the instances the string schemas are called on
StringInstances ==
    {JStr(string) : string \in
        {"", "a", "b", "ab", "ba", "abc", "1.2.3.4", "01.2.3.4", "0.0.0.0", "1.2.3.255",
         "1.2.3.256", "1.2.3", "1.2.3.4.5", "1..2.3", "1.2.3.", "a.b.c.d", "1.2.3.a",
         "a.2.3.256", "1.2.3.-1"}}
    \cup {JInt(1), JList(<<>>)}

\* the instances the schemas of lengths and member counts are called on
LengthInstances ==
    {JStr(""), JStr("a"), JStr("ab"), JStr("abc"), JInt(1), JDict(<<>>, <<>>),
     JDict(<<"a">>, <<JInt(1)>>), JDict(<<"a", "b">>, <<JInt(1), JInt(2)>>)}

\* the pairs of a schema definition and an instance
Inputs ==
    (KeywordSchemas \X Instances)
    \cup (CompositionSchemas \X CompositionInstances)
    \cup (ArraySchemas \X ArrayInstances)
    \cup (ObjectSchemas \X ObjectInstances)
    \cup (StringSchemas \X StringInstances)
    \cup (LengthSchemas \X LengthInstances)
    \cup (NumberSchemas \X Scalars)
    \cup (BoundSchemas \X BoundInstances)
    \cup (UnknownKeySchemas \X UnknownKeyInstances)
    \cup (NestedSchemas \X NestedInstances)

\* the schemas and instances of the concurrent calls
ConcurrentSchemas ==
    Scenarios
    \cup {JDict(<<"uniqueItems", "minItems", "items">>,
                <<JBool(TRUE), JInt(3), TypeSchema("string")>>),
           JDict(<<"enum", "anyOf">>,
                <<JList(<<JInt(1)>>), JList(<<TypeSchema("string"), TypeSchema("number")>>)>>)}

ConcurrentInstances == {JList(<<JInt(1), JInt(1)>>), JDict(<<"a">>, <<JInt(3)>>), JInt(3)}

\* the threads, and the call of a thread before it starts
Threads == 1..MaxThreads

NoOutcome == [pc |-> "none", errors |-> <<>>, raised |-> <<>>]

Idle(instance) ==
    [pc |-> "idle", data |-> instance, todo |-> <<>>, next_rule |-> 1, raised |-> <<>>,
     previous |-> NoOutcome]

\* the list thread t collects its errors in: `errors = []` makes one in
\* every call
errors_of_Shared(t) == 1

errors_of(t) == t

-----------------------------------------------------------------------------
(* The state machine: a Validator is constructed from a schema definition  *)
(* and then called, any number of times, on an instance.                   *)

Init ==
    /\ \E input \in Inputs : schema_definition = input[1] /\ data = input[2]
    /\ pc = "new"
    /\ _program = EmptyProgram
    /\ init_error = NoError
    /\ todo = <<>>
    /\ next_rule = 1
    /\ errors = <<>>
    /\ before = <<>>
    /\ raised = <<>>
    /\ calls = [t \in Threads |-> Idle(data)]
    /\ accumulators = [t \in Threads |-> <<>>]

\* Validator.__init__(schema_definition)
Construct ==
    /\ pc = "new"
    /\ LET built == Validator__init__(schema_definition) IN
       /\ pc' = IF built.exc = "none" THEN "ready" ELSE "init_raised"
       /\ _program' = built.program
       /\ init_error' = [exc |-> built.exc, path |-> built.path]
    /\ UNCHANGED <<schema_definition, data, todo, next_rule, errors, before, raised,
                   calls, accumulators>>

\* Validator.__call__(data): errors = [] and the entry into Program.run
Call ==
    /\ pc \in {"ready", "returned", "ValidationError", "call_raised"}
    /\ pc' = "running"
    /\ errors' = <<>>
    /\ before' = <<>>
    /\ raised' = <<>>
    /\ todo' = RulesFor(_program, data)
    /\ next_rule' = 1
    /\ UNCHANGED <<schema_definition, data, _program, init_error, calls, accumulators>>

\* Program.run: the next rule is invoked as rule([], data, errors); an
\* exception of the rule leaves Validator.__call__
RunRule ==
    /\ pc = "running"
    /\ next_rule <= Len(todo)
    /\ LET r == ApplyRule(todo[next_rule], <<>>, data, errors) IN
       /\ errors' = r.errors
       /\ pc' = IF r.exc = "none" THEN "running" ELSE "call_raised"
    /\ before' = errors
    /\ next_rule' = next_rule + 1
    /\ UNCHANGED <<schema_definition, data, _program, init_error, todo, raised,
                   calls, accumulators>>

\* Validator.__call__ after Program.run returned: return, or group the
\* errors by path and raise ValidationError
Finish ==
    /\ pc = "running"
    /\ next_rule > Len(todo)
    /\ pc' = IF errors = <<>> THEN "returned" ELSE "ValidationError"
    /\ raised' = IF errors = <<>> THEN <<>> ELSE Groups(errors)
    /\ UNCHANGED <<schema_definition, data, _program, init_error, todo, next_rule,
                   errors, before, calls, accumulators>>

Next == Construct \/ Call \/ RunRule \/ Finish

Spec == Init /\ [][Next]_vars

-----------------------------------------------------------------------------
(* Concurrent calls: after construction, each thread calls the Validator   *)
(* on its own instance, any number of times; a step of a thread is the     *)
(* entry into Program.run, one rule, or the end of Validator.__call__.     *)

InitConcurrent ==
    /\ \E schema \in ConcurrentSchemas, instance \in [Threads -> ConcurrentInstances] :
          /\ schema_definition = schema
          /\ data = instance[1]
          /\ calls = [t \in Threads |-> Idle(instance[t])]
    /\ pc = "new"
    /\ _program = EmptyProgram
    /\ init_error = NoError
    /\ todo = <<>>
    /\ next_rule = 1
    /\ errors = <<>>
    /\ before = <<>>
    /\ raised = <<>>
    /\ accumulators = [t \in Threads |-> <<>>]

\* how the call of thread t stands: where it is and what it has collected
Outcome(t) ==
    [pc |-> calls[t].pc, errors |-> accumulators[errors_of(t)], raised |-> calls[t].raised]

\* Validator.__call__(data) in thread t: errors = [] and the entry into
\* Program.run
ThreadCall(t) ==
    /\ pc = "ready"
    /\ calls[t].pc # "running"
    /\ calls' = [calls EXCEPT ![t].pc = "running",
                              ![t].todo = RulesFor(_program, calls[t].data),
                              ![t].next_rule = 1,
                              ![t].raised = <<>>,
                              ![t].previous = IF calls[t].pc = "idle" THEN calls[t].previous
                                              ELSE Outcome(t)]
    /\ accumulators' = [accumulators EXCEPT ![errors_of(t)] = <<>>]
    /\ UNCHANGED <<schema_definition, data, pc, _program, init_error, todo, next_rule,
                   errors, before, raised>>

\* Program.run in thread t: the next rule is invoked on the thread's instance
\* and accumulator
ThreadRunRule(t) ==
    /\ calls[t].pc = "running"
    /\ calls[t].next_rule <= Len(calls[t].todo)
    /\ LET r == ApplyRule(calls[t].todo[calls[t].next_rule], <<>>, calls[t].data,
                          accumulators[errors_of(t)]) IN
       /\ accumulators' = [accumulators EXCEPT ![errors_of(t)] = r.errors]
       /\ calls' = [calls EXCEPT ![t].pc = IF r.exc = "none" THEN "running" ELSE "call_raised",
                                 ![t].next_rule = calls[t].next_rule + 1]
    /\ UNCHANGED <<schema_definition, data, pc, _program, init_error, todo, next_rule,
                   errors, before, raised>>

\* Validator.__call__ in thread t after Program.run returned
ThreadFinish(t) ==
    /\ calls[t].pc = "running"
    /\ calls[t].next_rule > Len(calls[t].todo)
    /\ LET collected == accumulators[errors_of(t)] IN
       calls' = [calls EXCEPT ![t].pc = IF collected = <<>> THEN "returned" ELSE "ValidationError",
                              ![t].raised = IF collected = <<>> THEN <<>> ELSE Groups(collected)]
    /\ UNCHANGED <<schema_definition, data, pc, _program, init_error, todo, next_rule,
                   errors, before, raised, accumulators>>

NextConcurrent ==
    \/ Construct
    \/ \E t \in Threads : ThreadCall(t)
    \/ \E t \in Threads : ThreadRunRule(t)
    \/ \E t \in Threads : ThreadFinish(t)

SpecConcurrent == InitConcurrent /\ [][NextConcurrent]_vars

-----------------------------------------------------------------------------
(* Vocabulary of the properties.                                           *)

\* a rule has been invoked in the current call; LastRule is that rule
Invoked == pc \in {"running", "returned", "ValidationError", "call_raised"} /\ next_rule > 1
LastRule == todo[next_rule - 1]
\* the last rule invoked returned (it did not raise)
LastReturned == Invoked /\ pc # "call_raised"
\* the call is over
CallOver == pc \in {"returned", "ValidationError", "call_raised"}

IsPrefix(p, q) == Len(p) <= Len(q) /\ SubSeq(q, 1, Len(p)) = p
\* what the last rule appended
Appended == SubSeq(errors, Len(before) + 1, Len(errors))

\* structural equality of JSON values: equal tags, arrays equal element by
\* element in order, objects equal by key set and per-key values
RECURSIVE StructEq(_, _)
StructEq(a, b) ==
    /\ a.t = b.t
    /\ CASE a.t = "list" ->
              Len(a.c) = Len(b.c) /\ \A i \in 1..Len(a.c) : StructEq(a.c[i], b.c[i])
         [] a.t = "dict" ->
              /\ DictKeySet(a) = DictKeySet(b)
              /\ \A k \in DictKeySet(a) : StructEq(DictGet(a, k), DictGet(b, k))
         [] OTHER -> a.n = b.n /\ a.s = b.s

\* the branch results a composition rule sees: each sub-program run on the
\* instance with a fresh accumulator
Branch(rule, i) == run(rule.progs[i], <<>>, data, <<>>)
Branches(rule) == 1..Len(rule.progs)
RECURSIVE BranchErrors(_, _)
BranchErrors(rule, i) ==
    IF i > Len(rule.progs) THEN <<>> ELSE Branch(rule, i).errors \o BranchErrors(rule, i + 1)

\* the rules of a program, at the top level
TopRules(prog) == Range(prog.general) \cup UNION {Range(prog.type_specific[t]) : t \in PyTypes}

\* the entry of a ValidationError group for an error record
Entry(error) == [keyword |-> error.keyword, value |-> error.value]
\* the errors appended at a path, in append order
ErrorsAt(path) == SelectSeq(errors, LAMBDA error : error.path = path)
FirstAt(path) == Min({i \in 1..Len(errors) : errors[i].path = path})

-----------------------------------------------------------------------------
(* C1: every call of the Validator returns normally iff the program run    *)
(* appended no error, and otherwise raises a ValidationError whose groups  *)
(* have pairwise distinct paths, are ordered by the first occurrence of    *)
(* their path among the appended errors, and list {keyword, value} of      *)
(* exactly the errors appended at their path, in append order.             *)
GroupsAsClaimed ==
    /\ \A g, h \in 1..Len(raised) : g # h => raised[g].path # raised[h].path
    /\ {raised[g].path : g \in 1..Len(raised)} = {errors[i].path : i \in 1..Len(errors)}
    /\ \A g, h \in 1..Len(raised) : g < h => FirstAt(raised[g].path) < FirstAt(raised[h].path)
    /\ \A g \in 1..Len(raised) :
          LET at == ErrorsAt(raised[g].path) IN
          raised[g].errors = [k \in 1..Len(at) |-> Entry(at[k])]

C1_CallReturnsOrRaisesGroups ==
    CallOver =>
        /\ (pc = "returned") <=> (errors = <<>>)
        /\ errors # <<>> => pc = "ValidationError" /\ GroupsAsClaimed

\* the grouping itself, on the calls in which Program.run returned
C1_GroupingOfCompletedRuns ==
    pc \in {"returned", "ValidationError"} =>
        /\ (pc = "returned") <=> (errors = <<>>)
        /\ pc = "ValidationError" => GroupsAsClaimed

-----------------------------------------------------------------------------
(* C2: construction selects Draft-04 for an absent "$schema" and for the   *)
(* two recognised URIs, and for any other "$schema" value raises a         *)
(* SchemaError with path ["$schema"] and builds no program.                *)
RecognisedDialect ==
    \/ ~DictHas(schema_definition, "$schema")
    \/ DictGet(schema_definition, "$schema") \in
          {JStr("http://json-schema.org/schema#"), JStr("http://json-schema.org/draft-04/schema#")}

C2_DialectSelection ==
    pc # "new" =>
        /\ RecognisedDialect =>
              LET draft04 == compile(schema_definition, <<>>) IN
              /\ init_error = [exc |-> draft04.exc, path |-> draft04.path]
              /\ _program = draft04.program
        /\ ~RecognisedDialect =>
              /\ init_error = SchemaError(<<PathKey("$schema")>>)
              /\ pc = "init_raised"
              /\ _program = EmptyProgram

-----------------------------------------------------------------------------
(* C3: the type rule appends one error at the current path iff the         *)
(* instance's tag is not in the configured set, where integer matches only *)
(* Int and number matches Int and Num; so oneOf [integer, number] on 3 has *)
(* two matching branches and yields one oneOf error at [].                 *)
TagMatches(name, value) ==
    CASE name = "integer" -> value.t = "int"
      [] name = "number" -> value.t \in {"int", "float"}
      [] OTHER -> value.t = valid_types[name]

ConfiguredTypes(rule) ==
    IF rule.value.t = "str" THEN {rule.value.s} ELSE {rule.value.c[i].s : i \in 1..Len(rule.value.c)}

OneOfIntegerNumber ==
    Schema1("oneOf", JList(<<TypeSchema("integer"), TypeSchema("number")>>))

C3_TypeRule ==
    /\ (Invoked /\ LastRule.name = "type") =>
          /\ pc # "call_raised"
          /\ errors = IF \E name \in ConfiguredTypes(LastRule) : TagMatches(name, data)
                      THEN before
                      ELSE Append(before, Error(<<>>, LastRule))
    /\ (CallOver /\ schema_definition = OneOfIntegerNumber /\ data = JInt(3)) =>
          /\ Len(errors) = 1
          /\ errors[1].keyword = "oneOf" /\ errors[1].path = <<>>

-----------------------------------------------------------------------------
(* C4: the not rule appends nothing to the caller's errors when its        *)
(* sub-program produced at least one error, appends exactly one `not`      *)
(* error at the current path when the sub-program produced none, and never *)
(* surfaces an error of the sub-program.                                   *)
C4_NotRule ==
    (Invoked /\ LastRule.name = "not" /\ Branch(LastRule, 1).exc = "none") =>
        errors = IF Branch(LastRule, 1).errors # <<>>
                 THEN before
                 ELSE Append(before, Error(<<>>, LastRule))

-----------------------------------------------------------------------------
(* C5: the anyOf rule leaves the caller's accumulator unchanged whenever   *)
(* at least one branch produces no errors, whatever its position and       *)
(* whatever the other branches produce; when every branch fails it appends *)
(* the errors of all branches, in branch order, after the caller's errors. *)
C5_AnyOfRule ==
    (Invoked /\ LastRule.name = "anyOf") =>
        /\ (\E i \in Branches(LastRule) :
                Branch(LastRule, i).exc = "none" /\ Branch(LastRule, i).errors = <<>>)
              => errors = before
        /\ (\A i \in Branches(LastRule) :
                Branch(LastRule, i).exc = "none" /\ Branch(LastRule, i).errors # <<>>)
              => pc # "call_raised" /\ errors = before \o BranchErrors(LastRule, 1)

\* a later branch matches after an earlier one failed, the caller holding errors
C5_Witness_LaterBranchMatches ==
    /\ LastReturned /\ LastRule.name = "anyOf" /\ before # <<>>
    /\ Len(LastRule.progs) = 2
    /\ Branch(LastRule, 1).errors # <<>>
    /\ Branch(LastRule, 2).exc = "none" /\ Branch(LastRule, 2).errors = <<>>

-----------------------------------------------------------------------------
(* C6: the oneOf rule appends no error iff exactly one branch produces     *)
(* zero errors; with zero or with two or more matching branches it appends *)
(* exactly one oneOf error at the current path; no error of a branch ever  *)
(* reaches the caller's accumulator.                                       *)
Matching(rule) == {i \in Branches(rule) : Branch(rule, i).errors = <<>>}

C6_OneOfRule ==
    (Invoked /\ LastRule.name = "oneOf"
             /\ \A i \in Branches(LastRule) : Branch(LastRule, i).exc = "none") =>
        /\ pc # "call_raised"
        /\ errors = IF Cardinality(Matching(LastRule)) = 1
                    THEN before
                    ELSE Append(before, Error(<<>>, LastRule))

\* two branches match while the caller holds errors
C6_Witness_TwoMatch ==
    /\ LastReturned /\ LastRule.name = "oneOf" /\ before # <<>>
    /\ Cardinality(Matching(LastRule)) = 2
    /\ errors = Append(before, Error(<<>>, LastRule))

-----------------------------------------------------------------------------
(* C7: the enum rule appends exactly one error at the current path iff the *)
(* instance is structurally equal to no configured element, for every JSON *)
(* instance, arrays and objects included; and schema validation rejects an *)
(* enum list that holds two structurally equal elements.                   *)
HasEnumDuplicates(schema) ==
    /\ DictHas(schema, "enum")
    /\ LET v == DictGet(schema, "enum") IN
       /\ v.t = "list"
       /\ \E i, j \in 1..Len(v.c) : i < j /\ StructEq(v.c[i], v.c[j])

C7_EnumRule ==
    /\ (Invoked /\ LastRule.name = "enum") =>
          /\ pc # "call_raised"
          /\ errors = IF \E i \in 1..Len(LastRule.value.c) : StructEq(data, LastRule.value.c[i])
                      THEN before
                      ELSE Append(before, Error(<<>>, LastRule))
    /\ (pc # "new" /\ HasEnumDuplicates(schema_definition) /\ RecognisedDialect) =>
          init_error.exc = "SchemaError"

-----------------------------------------------------------------------------
(* C8: with uniqueItems true the rule appends, for every array instance,   *)
(* exactly one error at path+[j] for each index j such that some i<j has   *)
(* value[i] structurally equal to value[j], for no other index, in         *)
(* ascending order of j; with uniqueItems false no rule is emitted.        *)
Repeats(value) ==
    {j \in 0..(Len(value) - 1) : \E i \in 0..(j - 1) : StructEq(value[i + 1], value[j + 1])}

C8_UniqueItemsRule ==
    /\ (Invoked /\ LastRule.name = "uniqueItems") =>
          /\ pc # "call_raised"
          /\ LastRule.value = JBool(TRUE)
          /\ IsPrefix(before, errors)
          /\ Len(Appended) = Cardinality(Repeats(data.c))
          /\ \A k \in 1..Len(Appended) :
                /\ Appended[k].keyword = "uniqueItems"
                /\ Appended[k].value = JBool(TRUE)
                /\ \E j \in Repeats(data.c) : Appended[k].path = <<PathIdx(j)>>
          /\ \A k, l \in 1..Len(Appended) :
                k < l => Appended[k].path[1].idx < Appended[l].path[1].idx
    /\ data.t = "list" => non_unique_items(data.c) = Repeats(data.c)
    /\ (pc = "ready" /\ DictHas(schema_definition, "uniqueItems")
                     /\ DictGet(schema_definition, "uniqueItems") = JBool(FALSE)) =>
          \A rule \in TopRules(_program) : rule.name # "uniqueItems"

\* [1, 1, 2, 1] gives the errors at [1] and then at [3]
C8_Witness_Repeats ==
    /\ LastReturned /\ LastRule.name = "uniqueItems"
    /\ data = JList(<<JInt(1), JInt(1), JInt(2), JInt(1)>>)
    /\ Len(Appended) = 2
    /\ Appended[1].path = <<PathIdx(1)>> /\ Appended[2].path = <<PathIdx(3)>>

-----------------------------------------------------------------------------
(* C9: the required rule appends, for each listed field that is absent     *)
(* from the object instance and for no other field, exactly one error      *)
(* whose path is path+[field], in the order the fields are listed.         *)
Listed(rule) == 1..Len(rule.value.c)
IsAbsent(rule, f) == rule.value.c[f].s \notin DictKeySet(data)

C9_RequiredRule ==
    (Invoked /\ LastRule.name = "required") =>
        /\ pc # "call_raised"
        /\ IsPrefix(before, errors)
        /\ \A f \in Listed(LastRule) :
              Cardinality({k \in 1..Len(Appended) :
                              Appended[k].path = <<PathKey(LastRule.value.c[f].s)>>})
                 = IF IsAbsent(LastRule, f) THEN 1 ELSE 0
        /\ \A k \in 1..Len(Appended) :
              /\ Appended[k].keyword = "required" /\ Appended[k].value = LastRule.value
              /\ \E f \in Listed(LastRule) : Appended[k].path = <<PathKey(LastRule.value.c[f].s)>>
        /\ \A k, l \in 1..Len(Appended) : \A f, g \in Listed(LastRule) :
              (/\ k < l
               /\ Appended[k].path = <<PathKey(LastRule.value.c[f].s)>>
               /\ Appended[l].path = <<PathKey(LastRule.value.c[g].s)>>) => f < g

\* two listed fields are absent and one listed field is present
C9_Witness_TwoAbsent ==
    /\ LastReturned /\ LastRule.name = "required"
    /\ LastRule.value = StrList(<<"b", "a">>)
    /\ data = JDict(<<"c">>, <<JNull>>)
    /\ Appended = <<Error(<<PathKey("b")>>, LastRule), Error(<<PathKey("a")>>, LastRule)>>

-----------------------------------------------------------------------------
(* C10: for {"type":"object","properties":{"a":{"type":"string"}},         *)
(* "required":["a","b"]} and the input {"a":3} the ValidationError holds   *)
(* exactly two groups.                                                     *)
Scenario3 ==
    JDict(<<"type", "properties", "required">>,
          <<JStr("object"), JDict(<<"a">>, <<TypeSchema("string")>>), StrList(<<"a", "b">>)>>)
Scenario3Input == JDict(<<"a">>, <<JInt(3)>>)
Scenario3Over == CallOver /\ schema_definition = Scenario3 /\ data = Scenario3Input

RequiredEntry == [keyword |-> "required", value |-> StrList(<<"a", "b">>)]
TypeStringEntry == [keyword |-> "type", value |-> JStr("string")]

\* as claimed: first the group at [] with {required, ["a","b"]}, then the
\* group at ["a"] with {type, "string"}
C10_Original_RequiredAtRootFirst ==
    Scenario3Over =>
        /\ pc = "ValidationError"
        /\ raised = <<[path |-> <<>>, errors |-> <<RequiredEntry>>],
                      [path |-> <<PathKey("a")>>, errors |-> <<TypeStringEntry>>]>>

\* as the code has it: first the group at ["a"] with {type, "string"}, then
\* the group at ["b"], the missing field, with {required, ["a","b"]}
C10_Amended_TypeAtAThenRequiredAtB ==
    Scenario3Over =>
        /\ pc = "ValidationError"
        /\ raised = <<[path |-> <<PathKey("a")>>, errors |-> <<TypeStringEntry>>],
                      [path |-> <<PathKey("b")>>, errors |-> <<RequiredEntry>>]>>

C10_Witness_Scenario3Raised == Scenario3Over /\ pc = "ValidationError" /\ Len(raised) = 2

-----------------------------------------------------------------------------
(* Vocabulary of the array and object properties.                          *)

\* the sibling of the last rule in the schema definition
HasSibling(name) == DictHas(schema_definition, name)
Sibling(name) == DictGet(schema_definition, name)

\* the result of the sub-program of schema on the element at index i (from
\* 0) of the array instance, with a fresh accumulator and the path [i]
OnElement(schema, i) ==
    run(compile(schema, <<>>).program, <<PathIdx(i)>>, data.c[i + 1], <<>>)

\* the errors of the sub-programs of schemaAt[i] on the elements at the
\* indexes of `order`, in that order
RECURSIVE ElementErrors(_, _, _)
ElementErrors(schemaAt, order, k) ==
    IF k > Len(order) THEN <<>>
    ELSE OnElement(schemaAt[order[k] + 1], order[k]).errors
            \o ElementErrors(schemaAt, order, k + 1)

\* the indexes lo, lo+1, ..., hi-1 in ascending order
Indexes(lo, hi) == [j \in 1..(IF hi > lo THEN hi - lo ELSE 0) |-> lo + j - 1]
\* the same schema for every element of the instance
Everywhere(schema) == [i \in 1..Len(data.c) |-> schema]

-----------------------------------------------------------------------------
(* C11: additionalItems has an effect only when the sibling items is in    *)
(* array form: with items absent or a single schema object it emits no     *)
(* error for any array instance; with items an array of k schemas, false   *)
(* emits exactly one error at path+[i] for each index i with               *)
(* k <= i < len(instance), and a schema value runs its sub-program on      *)
(* exactly those elements.                                                 *)
ItemsInArrayForm == HasSibling("items") /\ Sibling("items").t = "list"

C11_AdditionalItemsRule ==
    (Invoked /\ LastRule.name = "additionalItems") =>
        LET k == Len(Sibling("items").c)
            excess == Indexes(k, Len(data.c))
        IN /\ ~ItemsInArrayForm => errors = before
           /\ (ItemsInArrayForm /\ LastRule.value = JBool(FALSE)) =>
                 errors = before \o [j \in 1..Len(excess) |-> Error(<<PathIdx(excess[j])>>, LastRule)]
           /\ (/\ ItemsInArrayForm /\ LastRule.value.t = "dict"
               /\ \A j \in 1..Len(excess) : OnElement(LastRule.value, excess[j]).exc = "none") =>
                 errors = before \o ElementErrors(Everywhere(LastRule.value), excess, 1)

\* the part of C11 about array-form items, which the rule meets
C11_ArrayFormItems ==
    (Invoked /\ LastRule.name = "additionalItems" /\ ItemsInArrayForm) =>
        LET k == Len(Sibling("items").c)
            excess == Indexes(k, Len(data.c))
        IN /\ LastRule.value = JBool(FALSE) =>
                 errors = before \o [j \in 1..Len(excess) |-> Error(<<PathIdx(excess[j])>>, LastRule)]
           /\ (/\ LastRule.value.t = "dict"
               /\ \A j \in 1..Len(excess) : OnElement(LastRule.value, excess[j]).exc = "none") =>
                 errors = before \o ElementErrors(Everywhere(LastRule.value), excess, 1)

-----------------------------------------------------------------------------
(* C12: the items rule in object form runs the one sub-program on every    *)
(* element i with path+[i]; in array form it runs the i-th sub-program on  *)
(* the i-th element exactly for i < min(len(items), len(instance)), so     *)
(* elements beyond the tuple and tuple slots beyond the instance produce   *)
(* no items errors.                                                        *)
ItemsCovered(rule) ==
    IF rule.value.t = "dict" THEN Indexes(0, Len(data.c))
    ELSE Indexes(0, IF Len(rule.value.c) < Len(data.c) THEN Len(rule.value.c) ELSE Len(data.c))

ItemsSchemaAt(rule) == IF rule.value.t = "dict" THEN Everywhere(rule.value) ELSE rule.value.c

C12_ItemsRule ==
    (/\ Invoked /\ LastRule.name = "items"
     /\ \A j \in 1..Len(ItemsCovered(LastRule)) :
           OnElement(ItemsSchemaAt(LastRule)[j], ItemsCovered(LastRule)[j]).exc = "none") =>
        /\ pc # "call_raised"
        /\ errors = before \o ElementErrors(ItemsSchemaAt(LastRule), ItemsCovered(LastRule), 1)
        /\ \A e \in Range(Appended) :
              Len(e.path) >= 1 /\ e.path[1].idx \in Range(ItemsCovered(LastRule))

\* an array-form items of two schemas on three elements, the first of which
\* fails its schema, the caller holding an error
C12_Witness_TupleShorterThanInstance ==
    /\ LastReturned /\ LastRule.name = "items" /\ before # <<>>
    /\ LastRule.value.t = "list" /\ Len(LastRule.value.c) = 2 /\ Len(data.c) = 3
    /\ Appended = <<[path |-> <<PathIdx(0)>>, keyword |-> "type", value |-> JStr("integer")]>>

-----------------------------------------------------------------------------
(* Vocabulary of the object properties.                                    *)

\* the pattern matches somewhere in the string (an unanchored find)
MatchesSomewhere(pattern, string) ==
    LET p == Chars(pattern)
        t == Chars(string)
    IN \E offset \in 0..(Len(t) - Len(p)) : SubSeq(t, offset + 1, offset + Len(p)) = p

\* the result of the sub-program of schema on the member at position i of
\* the object instance, with a fresh accumulator and the path [key]
OnMember(schema, i) ==
    run(compile(schema, <<>>).program, <<PathKey(data.keys[i])>>, data.c[i], <<>>)

\* the keys of the sibling `properties`
PropertiesKeys == IF HasSibling("properties") THEN DictKeySet(Sibling("properties")) ELSE {}
\* the patterns of the sibling `patternProperties`, in the schema's order
Patterns == IF HasSibling("patternProperties") THEN Sibling("patternProperties").keys ELSE <<>>

\* the errors of the sub-programs of the patterns (from the j-th on) of a
\* patternProperties value that match the key of the member at position i
RECURSIVE MatchingPatternErrors(_, _, _)
MatchingPatternErrors(value, i, j) ==
    IF j > Len(value.keys) THEN <<>>
    ELSE (IF MatchesSomewhere(value.keys[j], data.keys[i])
          THEN OnMember(value.c[j], i).errors ELSE <<>>)
            \o MatchingPatternErrors(value, i, j + 1)

\* the same over the members (from the i-th on) whose key is not a key of
\* the sibling `properties`
RECURSIVE PatternPropertiesErrors(_, _)
PatternPropertiesErrors(value, i) ==
    IF i > Len(data.keys) THEN <<>>
    ELSE (IF data.keys[i] \in PropertiesKeys THEN <<>> ELSE MatchingPatternErrors(value, i, 1))
            \o PatternPropertiesErrors(value, i + 1)

-----------------------------------------------------------------------------
(* C13: the patternProperties rule, for each instance member whose key is  *)
(* not a key of the sibling properties value (every member when properties *)
(* is absent), runs every sub-program whose pattern matches the key (all   *)
(* of them when several patterns match), with the key appended to the      *)
(* path; members whose key is in properties are skipped and no other       *)
(* member is skipped.                                                      *)
C13_PatternPropertiesRule ==
    (/\ Invoked /\ LastRule.name = "patternProperties"
     /\ \A i \in 1..Len(data.keys) : \A j \in 1..Len(LastRule.value.keys) :
           OnMember(LastRule.value.c[j], i).exc = "none") =>
        errors = before \o PatternPropertiesErrors(LastRule.value, 1)

-----------------------------------------------------------------------------
(* C14: the additionalProperties rule acts exactly on the instance keys k  *)
(* that are neither a key of sibling properties nor matched by any sibling *)
(* patternProperties pattern: with value false it emits one error at       *)
(* path+[k] per such key, with a schema value it runs the sub-program on   *)
(* that member with path+[k], with value true it emits nothing; covered    *)
(* keys never produce an additionalProperties error.                       *)
covered(k) ==
    \/ k \in PropertiesKeys
    \/ \E j \in 1..Len(Patterns) : MatchesSomewhere(Patterns[j], k)

\* covered, with a pattern taken to match a key only at the key's start
coveredAtStart(k) ==
    \/ k \in PropertiesKeys
    \/ \E j \in 1..Len(Patterns) : re_match(Patterns[j], k)

\* the positions of the members of the instance that satisfy Test, in order
MembersWhere(Test(_)) ==
    SelectSeq([i \in 1..Len(data.keys) |-> i], LAMBDA i : Test(data.keys[i]))

RECURSIVE MemberErrors(_, _, _)
MemberErrors(schema, order, k) ==
    IF k > Len(order) THEN <<>>
    ELSE OnMember(schema, order[k]).errors \o MemberErrors(schema, order, k + 1)

AdditionalPropertiesActsOn(order) ==
    /\ LastRule.value = JBool(FALSE) =>
          errors = before \o [j \in 1..Len(order) |->
                                 Error(<<PathKey(data.keys[order[j]])>>, LastRule)]
    /\ (LastRule.value.t = "dict"
          /\ \A j \in 1..Len(order) : OnMember(LastRule.value, order[j]).exc = "none") =>
          errors = before \o MemberErrors(LastRule.value, order, 1)

AdditionalPropertiesTrue ==
    (/\ pc = "ready" /\ HasSibling("additionalProperties")
     /\ Sibling("additionalProperties") = JBool(TRUE)) =>
        \A rule \in TopRules(_program) : rule.name # "additionalProperties"

C14_AdditionalPropertiesRule ==
    /\ (Invoked /\ LastRule.name = "additionalProperties") =>
          AdditionalPropertiesActsOn(MembersWhere(LAMBDA k : ~covered(k)))
    /\ AdditionalPropertiesTrue

\* the rule with `matched` read as a match at the start of the key, which
\* is how the rule and the sibling patternProperties rule match
C14_CoveredAtStart ==
    /\ (Invoked /\ LastRule.name = "additionalProperties") =>
          AdditionalPropertiesActsOn(MembersWhere(LAMBDA k : ~coveredAtStart(k)))
    /\ AdditionalPropertiesTrue

-----------------------------------------------------------------------------
(* C15: the pattern rule emits an error iff the configured regular         *)
(* expression matches nowhere in the string: a string in which the pattern *)
(* first matches at an offset greater than 0 (pattern "b" on "ab")         *)
(* produces no error.                                                      *)
C15_PatternRule ==
    (Invoked /\ LastRule.name = "pattern") =>
        errors = IF MatchesSomewhere(LastRule.value.s, data.s)
                 THEN before
                 ELSE Append(before, Error(<<>>, LastRule))

-----------------------------------------------------------------------------
(* C16: the format ipv4 rule emits exactly one error when the string does  *)
(* not split on '.' into exactly 4 parts that are each a decimal integer   *)
(* in 0..255 with no leading zero on multi-digit parts, and no error       *)
(* otherwise; for every string instance it emits at most one error and     *)
(* does not raise.                                                         *)
IsDecimal(part) == part # <<>> /\ \A i \in 1..Len(part) : part[i] \in Range(Digits)

IsIpv4(string) ==
    LET parts == split(string, ".") IN
    /\ Len(parts) = 4
    /\ \A i \in 1..4 :
          /\ IsDecimal(parts[i])
          /\ DecimalValue(parts[i], 0) \in 0..255
          /\ ~(Len(parts[i]) > 1 /\ parts[i][1] = "0")

C16_FormatIpv4Rule ==
    (Invoked /\ LastRule.name = "format" /\ LastRule.value = JStr("ipv4")) =>
        /\ pc # "call_raised"
        /\ errors = IF IsIpv4(data.s) THEN before ELSE Append(before, Error(<<>>, LastRule))

-----------------------------------------------------------------------------
(* C17: schema validation accepts minLength, maxLength and maxProperties   *)
(* exactly when the value is a non-negative integer (and, for the max      *)
(* keyword, not less than the sibling min keyword when both are present);  *)
(* a negative or non-integer value raises SchemaError.                     *)
NonNegativeInteger(v) == v.t = "int" /\ v.n >= 0

\* the schema definition holds nothing but keywords among names
OnlyKeywords(names) == DictKeySet(schema_definition) # {} /\ DictKeySet(schema_definition) \subseteq names

BoundsAccepted(min, max) ==
    /\ \A name \in {min, max} : HasSibling(name) => NonNegativeInteger(Sibling(name))
    /\ (HasSibling(min) /\ HasSibling(max)) => Sibling(max).n >= Sibling(min).n

C17_LengthValidation ==
    /\ (pc # "new" /\ OnlyKeywords({"minLength", "maxLength"})) =>
          init_error.exc = IF BoundsAccepted("minLength", "maxLength") THEN "none" ELSE "SchemaError"
    /\ (pc # "new" /\ OnlyKeywords({"minProperties", "maxProperties"})
                    /\ HasSibling("maxProperties")) =>
          init_error.exc = IF BoundsAccepted("minProperties", "maxProperties")
                           THEN "none" ELSE "SchemaError"

-----------------------------------------------------------------------------
(* C18: inside a program run no rule raises: for every schema that passed  *)
(* schema validation and every JSON instance, running the program          *)
(* terminates normally and its only effect is appending error records      *)
(* (multipleOf with every value schema validation accepts, enum on array   *)
(* or object instances and format on every string included).               *)
C18_NoRuleRaises ==
    /\ pc # "call_raised"
    /\ Invoked => IsPrefix(before, errors)

-----------------------------------------------------------------------------
(* C19: the order of the rules in general and in each type_specific list,  *)
(* and hence the order of the appended errors, follows the order in which  *)
(* the dialect's keyword table declares the keywords and is independent of *)
(* the order of the keys in the schema JSON: two schemas that differ only  *)
(* in key order produce identical error sequences on every instance.       *)
Declared(name) == CHOOSE i \in 1..Len(keywords_keys) : keywords_keys[i] = name

InDeclaredOrder(rules) ==
    \A i, j \in 1..Len(rules) : i < j => Declared(rules[i].name) < Declared(rules[j].name)

\* the schema definition with its members in another order
Reordered(order) ==
    JDict([i \in 1..Len(order) |-> schema_definition.keys[order[i]]],
          [i \in 1..Len(order) |-> schema_definition.c[order[i]]])

Orders ==
    LET n == Len(schema_definition.keys) IN
    {order \in [1..n -> 1..n] : \A i, j \in 1..n : i # j => order[i] # order[j]}

C19_RuleOrder ==
    (pc \in {"returned", "ValidationError"}) =>
        /\ InDeclaredOrder(_program.general)
        /\ \A t \in PyTypes : InDeclaredOrder(_program.type_specific[t])
        /\ \A order \in Orders :
              LET other == Validator__init__(Reordered(order)) IN
              other.exc = "none" => run(other.program, <<>>, data, <<>>) = Ran(errors)

-----------------------------------------------------------------------------
(* C20: type-test consolidation preserves behaviour: the function in which *)
(* a type test that occurs exactly once is rewritten to isinstance, and a  *)
(* repeated type(value) is hoisted into one local, returns the same error  *)
(* sequence as the unoptimized function on every instance, boolean         *)
(* instances against an integer-tagged test included.                      *)
Constructed == pc \notin {"new", "init_raised"}

Unoptimized == Function(ast_body(_program), data)

C20_TypeTestConsolidation ==
    Constructed =>
        /\ Function(Optimizer_type_calling(ast_body(_program)), data) = Unoptimized
        /\ Function(optimize_type_calling(ast_body(_program)), data) = Unoptimized

\* C20, the part that holds: hoisting a repeated type(value) into one local
\* preserves the outcome, and so does the rewriting to isinstance of a test
\* against a type other than int
TypeCallings == _count_type_calling(ast_body(_program), 1)

RECURSIVE TestsOn(_, _)
TestsOn(body, i) ==
    IF i > Len(body) THEN {}
    ELSE (IF IsTypeCalling(body[i]) THEN {body[i].test} ELSE {})
         \cup TestsOn(body[i].body, 1) \cup TestsOn(body[i].orelse, 1) \cup TestsOn(body, i + 1)

C20_Hoisting ==
    Constructed =>
        /\ Function(optimize_type_calling(ast_body(_program)), data) = Unoptimized
        /\ (TypeCallings # 1 \/ \A test \in TestsOn(ast_body(_program), 1) :
                                    ~test.is_set /\ test.types # {"int"})
             => Function(Optimizer_type_calling(ast_body(_program)), data) = Unoptimized
        /\ Unoptimized = run(_program, <<>>, data, <<>>)

C20_Witness_Hoisted ==
    /\ Constructed
    /\ TypeCallings > 1
    /\ data.t = "bool"
    /\ \E test \in TestsOn(ast_body(_program), 1) : test.op = "Eq" /\ test.types = {"int"}
    /\ Unoptimized.errors # <<>>

-----------------------------------------------------------------------------
(* C21: single-error specialization preserves behaviour: Optimizer.run     *)
(* completes without raising on every generated program, and the function  *)
(* it returns gives the same error sequence as the original on every       *)
(* input, the empty list on inputs that trigger no error included.         *)
C21_SingleErrorSpecialization ==
    Constructed =>
        /\ Program_compile(_program).exc = "none"
        /\ Function(Program_compile(_program).body, data) = Unoptimized

\* C21, the part that holds: the program without rules is not optimized
C21_EmptyProgramCompiles ==
    (Constructed /\ ~Program__bool__(_program)) => Program_compile(_program).exc = "none"

-----------------------------------------------------------------------------
(* C22: dead-rule pruning and type-restricted lowering never remove a rule *)
(* that could fire: for every schema with a `type` keyword and every       *)
(* instance whose tag the declared type set admits (an int is admitted by  *)
(* a declared "number"), the program built with pruning gives the same     *)
(* error sequence as the program built with all keywords kept under all    *)
(* their applicable tags.                                                  *)
RootKeywords == Instantiate(schema_definition, <<>>)

Declares == _type_definition(RootKeywords)

\* the keywords applicable to the Python type t, whatever `type` declares
ApplicableTo(t) ==
    SelectSeq(RootKeywords,
              LAMBDA kw : \E i \in 1..Len(KeywordType(kw.name)) :
                             valid_types[KeywordType(kw.name)[i]] = t)

\* the program of the schema with no keyword pruned and no tag restricted
Unpruned ==
    LET g == _compile_keywords(general_rules(RootKeywords), RootKeywords, 1)
        ts == [t \in PyTypes |-> _compile_keywords(ApplicableTo(t), RootKeywords, 1)]
    IN [exc |-> IF g.exc # "none" \/ \E t \in PyTypes : ts[t].exc # "none" THEN "raised" ELSE "none",
        program |-> Program(g.rules, [t \in PyTypes |-> ts[t].rules])]

Admits(value) ==
    \/ \E name \in Declares : valid_types[name] = value.t
    \/ value.t = "int" /\ "number" \in Declares

AdmitsExactly(value) == \E name \in Declares : valid_types[name] = value.t

SameAsUnpruned ==
    run(_program, <<>>, data, <<>>) = run(Unpruned.program, <<>>, data, <<>>)

C22_PruningKeepsRules ==
    (Constructed /\ Declares # {} /\ Unpruned.exc = "none" /\ Admits(data)) => SameAsUnpruned

\* C22, the part that holds: the same for the instances whose exact Python
\* type the declared set names, and a keyword is dropped only when its
\* non-empty applicability is disjoint from the declared set
Dropped ==
    {RootKeywords[i].name : i \in 1..Len(RootKeywords)}
    \ {_delete_unused_keywords(RootKeywords)[i].name :
          i \in 1..Len(_delete_unused_keywords(RootKeywords))}

C22_PruningKeepsRulesOfDeclaredTypes ==
    (Constructed /\ Declares # {} /\ Unpruned.exc = "none") =>
        /\ AdmitsExactly(data) => SameAsUnpruned
        /\ \A name \in Dropped :
              KeywordType(name) # <<>> /\ Range(KeywordType(name)) \cap Declares = {}

-----------------------------------------------------------------------------
(* C23: the error accumulator is append-only across a run: for every rule  *)
(* invocation the accumulator's content before the call is a prefix of its *)
(* content after the call; anyOf, oneOf and not discard only records of    *)
(* their own scratch accumulators.                                         *)
\* the rules the programs held by a rule run on value
SubRules(rule, value) == UNION {Range(RulesFor(rule.progs[i], value)) : i \in 1..Len(rule.progs)}

\* the rules of the current call and the rules nested one and two levels
\* below them, as they run on the instance
NestedRules ==
    LET top == Range(todo)
        one == UNION {SubRules(rule, data) : rule \in top}
        two == UNION {SubRules(rule, data) : rule \in one}
    IN top \cup one \cup two

C23_AppendOnly ==
    /\ Invoked => IsPrefix(before, errors)
    /\ (pc = "running") =>
          \A rule \in NestedRules : IsPrefix(errors, ApplyRule(rule, <<>>, data, errors).errors)

C23_Witness_ScratchDiscarded ==
    /\ LastReturned
    /\ LastRule.name \in {"anyOf", "oneOf"}
    /\ before # <<>>
    /\ errors = before
    /\ \E i \in 1..Len(LastRule.progs) : run(LastRule.progs[i], <<>>, data, <<>>).errors # <<>>

-----------------------------------------------------------------------------
(* C24: after compilation returns, validation mutates neither the Program  *)
(* nor the instance: in any interleaving of validations on the same        *)
(* compiled program, each with its own accumulator, every validation ends  *)
(* with the error sequence it has when run alone, and a repeated           *)
(* validation of the same instance ends as the one before it.              *)
ThreadOver(t) == calls[t].pc \in {"returned", "ValidationError", "call_raised"}

\* how Validator.__call__ on the instance of thread t ends with no other call
Alone(t) ==
    LET r == run(_program, <<>>, calls[t].data, <<>>) IN
    [pc |-> IF r.exc # "none" THEN "call_raised"
            ELSE IF r.errors = <<>> THEN "returned" ELSE "ValidationError",
     errors |-> r.errors,
     raised |-> IF r.exc # "none" \/ r.errors = <<>> THEN <<>> ELSE Groups(r.errors)]

EndsAsAlone ==
    \A t \in Threads :
        ThreadOver(t) =>
            /\ Outcome(t) = Alone(t)
            /\ calls[t].previous.pc # "none" => Outcome(t) = calls[t].previous

ReadOnlyStep ==
    (pc = "ready") =>
        /\ _program' = _program
        /\ \A t \in Threads : calls'[t].data = calls[t].data

C24_ValidationIsReadOnly == []EndsAsAlone /\ [][ReadOnlyStep]_vars

C24_Witness_InterleavedAndRepeated ==
    \E t, u \in Threads :
        /\ t # u
        /\ ThreadOver(t) /\ calls[t].previous.pc # "none" /\ Outcome(t).errors # <<>>
        /\ calls[u].pc = "running" /\ calls[u].next_rule > 1 /\ Outcome(u).errors # <<>>
        /\ calls[u].next_rule <= Len(calls[u].todo)

-----------------------------------------------------------------------------
(* C25: the empty schema {} and any schema object whose keys are all       *)
(* outside the keyword table compile to an empty program that produces no  *)
(* error on every instance; adding unknown keys to a schema never changes  *)
(* its error sequence on any instance and never raises SchemaError; a      *)
(* schema that is not a JSON object raises SchemaError.                    *)
IsObject == schema_definition.t = "dict"

UnknownKeys == {i \in 1..Len(schema_definition.keys) : schema_definition.keys[i] \notin keywords}

\* the schema definition without its unknown keys
KnownOnly ==
    LET known == SelectSeq([i \in 1..Len(schema_definition.keys) |-> i],
                           LAMBDA i : i \notin UnknownKeys)
    IN JDict([j \in 1..Len(known) |-> schema_definition.keys[known[j]]],
             [j \in 1..Len(known) |-> schema_definition.c[known[j]]])

\* Schema.compile of the schema definition
Built == compile(schema_definition, <<>>)

C25_UnknownKeysIgnored ==
    (pc # "new") =>
        /\ (IsObject /\ UnknownKeys = 1..Len(schema_definition.keys)) =>
              /\ Built.exc = "none"
              /\ ~Program__bool__(Built.program)
              /\ run(Built.program, <<>>, data, <<>>) = Ran(<<>>)
              /\ Constructed => _program = Built.program
              /\ CallOver => pc = "returned" /\ errors = <<>>
        /\ IsObject => compile(KnownOnly, <<>>) = Built
        /\ (IsObject /\ ~DictHas(schema_definition, "$schema")) =>
              /\ init_error.exc = Built.exc
              /\ Constructed => _program = Built.program
        /\ ~IsObject => Built.exc = "SchemaError"

C25_Witness_UnknownKeyBesideFailingKeyword ==
    /\ CallOver
    /\ IsObject
    /\ UnknownKeys # {}
    /\ UnknownKeys # 1..Len(schema_definition.keys)
    /\ errors # <<>>

-----------------------------------------------------------------------------
(* C26: bound-pair consistency is checked independently of key order: a    *)
(* schema containing both minItems and maxItems with maxItems < minItems,  *)
(* or both minimum and maximum with maximum < minimum, raises SchemaError  *)
(* whichever of the two keys appears first in the schema, and compilation  *)
(* produces no Program.                                                    *)
Member(key) == DictGet(schema_definition, key)

\* both keys are present, with values of the types given, the upper bound
\* below the lower one
Inconsistent(lower, upper, types) ==
    /\ IsObject
    /\ DictHas(schema_definition, lower) /\ DictHas(schema_definition, upper)
    /\ Member(lower).t \in types /\ Member(upper).t \in types
    /\ Member(upper).n < Member(lower).n

KeyIndex(key) == CHOOSE i \in 1..Len(schema_definition.keys) : schema_definition.keys[i] = key

C26_BoundPairs ==
    (pc # "new" /\ (\/ Inconsistent("minItems", "maxItems", {"int"})
                    \/ Inconsistent("minimum", "maximum", {"int", "float"}))) =>
        /\ pc = "init_raised"
        /\ init_error.exc = "SchemaError"
        /\ _program = EmptyProgram

C26_Witness_UpperBoundFirst ==
    /\ pc = "init_raised"
    /\ Inconsistent("minItems", "maxItems", {"int"})
    /\ Member("minItems").n >= 0 /\ Member("maxItems").n >= 0
    /\ KeyIndex("maxItems") < KeyIndex("minItems")

-----------------------------------------------------------------------------
(* C27: the minimum rule emits an error iff instance < value, or           *)
(* instance <= value when the sibling exclusiveMinimum is true             *)
(* (symmetrically maximum with > / >= and exclusiveMaximum); the exclusive *)
(* keywords themselves emit no rule and no error; the strict / non-strict  *)
(* choice is fixed at compile time.                                        *)
Exclusive(key) ==
    /\ DictHas(schema_definition, key)
    /\ Member(key).t = "bool"
    /\ Member(key).n # 0

OneError(failed) == IF failed THEN <<Error(<<>>, LastRule)>> ELSE <<>>

ExclusiveKeywords == {"exclusiveMinimum", "exclusiveMaximum"}

C27_MinimumMaximumRules ==
    /\ (LastReturned /\ LastRule.name = "minimum") =>
          /\ Appended = OneError(\/ data.n < LastRule.value.n
                                 \/ Exclusive("exclusiveMinimum") /\ data.n <= LastRule.value.n)
          /\ LastRule.fn = IF Exclusive("exclusiveMinimum") THEN "Minimum.program_strict"
                           ELSE "Minimum.program"
    /\ (LastReturned /\ LastRule.name = "maximum") =>
          /\ Appended = OneError(\/ data.n > LastRule.value.n
                                 \/ Exclusive("exclusiveMaximum") /\ data.n >= LastRule.value.n)
          /\ LastRule.fn = IF Exclusive("exclusiveMaximum") THEN "Maximum.program_strict"
                           ELSE "Maximum.program"
    /\ Constructed => \A rule \in TopRules(_program) : rule.name \notin ExclusiveKeywords
    /\ \A i \in 1..Len(errors) : errors[i].keyword \notin ExclusiveKeywords

C27_Witness_StrictAtTheBound ==
    /\ LastReturned
    /\ LastRule.name = "minimum"
    /\ Exclusive("exclusiveMinimum")
    /\ data.n = LastRule.value.n
    /\ Appended # <<>>

-----------------------------------------------------------------------------
(* C28: every keyword's path, at any nesting depth, is the full schema-    *)
(* side path from the root schema to that keyword, so a SchemaError raised *)
(* for an invalid keyword nested under properties, patternProperties,      *)
(* items, additionalItems, additionalProperties, allOf, anyOf, oneOf or    *)
(* not carries the path from the root, the enclosing keyword and key or    *)
(* index included.                                                         *)
\* the value found in the JSON value v along the tokens of path from the
\* i-th on
RECURSIVE At(_, _, _)
At(v, path, i) ==
    IF i > Len(path) THEN [found |-> TRUE, value |-> v]
    ELSE IF path[i].idx = -1
    THEN IF v.t = "dict" /\ DictHas(v, path[i].key) THEN At(DictGet(v, path[i].key), path, i + 1)
         ELSE [found |-> FALSE, value |-> v]
    ELSE IF v.t = "list" /\ path[i].idx < Len(v.c) THEN At(v.c[path[i].idx + 1], path, i + 1)
         ELSE [found |-> FALSE, value |-> v]

\* path leads from the root to a keyword of a schema object whose
\* validate() raises SchemaError
LeadsToInvalidKeyword(path) ==
    /\ path # <<>>
    /\ LET prefix == SubSeq(path, 1, Len(path) - 1)
           parent == At(schema_definition, prefix, 1)
           key == path[Len(path)].key
       IN /\ parent.found
          /\ parent.value.t = "dict"
          /\ path[Len(path)].idx = -1
          /\ DictHas(parent.value, key)
          /\ key \in keywords
          /\ validate(Keyword(key, DictGet(parent.value, key), path),
                      Instantiate(parent.value, prefix)).exc = "SchemaError"

\* path leads from the root to an invalid keyword, or through one to the
\* member of its value that it refuses
FullPath(path) ==
    /\ At(schema_definition, path, 1).found
    /\ \E k \in 1..Len(path) : LeadsToInvalidKeyword(SubSeq(path, 1, k))

C28_KeywordPaths ==
    (pc = "init_raised" /\ init_error.exc = "SchemaError"
       /\ init_error.path # <<PathKey("$schema")>>) =>
        FullPath(init_error.path)

\* C28, the part that holds: the same for the keywords of the root schema
\* and those nested under properties and patternProperties only
PathlessNesting ==
    {"allOf", "anyOf", "oneOf", "not", "items", "additionalItems",
     "additionalProperties"}

RECURSIVE NoPathlessNesting(_)
NoPathlessNesting(v) ==
    /\ v.t = "dict" => \A i \in 1..Len(v.keys) : v.keys[i] \notin PathlessNesting
    /\ \A i \in 1..Len(v.c) : NoPathlessNesting(v.c[i])

C28_PathsUnderProperties ==
    (pc = "init_raised" /\ init_error.exc = "SchemaError"
       /\ init_error.path # <<PathKey("$schema")>>
       /\ NoPathlessNesting(schema_definition)) =>
        FullPath(init_error.path)

-----------------------------------------------------------------------------
(* C29: every recognized keyword of a schema object is validated before    *)
(* the pruning runs, so a keyword with an invalid configuration raises     *)
(* SchemaError even when its applicability is disjoint from the declared   *)
(* type, and the pruning removes only keywords that passed validation.     *)

\* the positions of the root keywords whose validate() raises
Invalid == {i \in 1..Len(RootKeywords) : validate(RootKeywords[i], RootKeywords).exc # "none"}

\* the keyword's applicability is non-empty and disjoint from the declared type
DisjointFromDeclared(name) ==
    /\ Declares # {}
    /\ KeywordType(name) # <<>>
    /\ Range(KeywordType(name)) \cap Declares = {}

\* C29: once the validator of a schema object is constructed, an invalid
\* keyword has made the construction raise the error of the first invalid
\* keyword, pruned or not, and every keyword the pruning dropped has passed
\* its validation
C29_ValidationPrecedesPruning ==
    (pc # "new" /\ IsObject /\ ~DictHas(schema_definition, "$schema")) =>
        /\ Invalid # {} =>
              LET first == validate(RootKeywords[Min(Invalid)], RootKeywords) IN
              /\ pc = "init_raised"
              /\ init_error.exc = first.exc
              /\ init_error.path = first.path
        /\ Constructed =>
              \A i \in 1..Len(RootKeywords) :
                  RootKeywords[i].name \in Dropped =>
                      validate(RootKeywords[i], RootKeywords).exc = "none"

C29_Witness_InvalidKeywordOfAnotherType ==
    /\ pc = "init_raised"
    /\ init_error.exc = "SchemaError"
    /\ Invalid # {}
    /\ DisjointFromDeclared(RootKeywords[Min(Invalid)].name)
    /\ init_error.path = <<PathKey(RootKeywords[Min(Invalid)].name)>>

\* a keyword is dropped by the pruning of a constructed validator
C29_Witness_ValidKeywordPruned ==
    /\ Constructed
    /\ Dropped # {}

-----------------------------------------------------------------------------
(* C30: the dispatch on the instance's type is by exact tag and selects at *)
(* most one type-specific rule list per run: a boolean instance never runs *)
(* the minimum, maximum and multipleOf rules, and when the schema declares *)
(* a type and the instance's tag is outside the declared set, no           *)
(* type-specific keyword of that schema level contributes an error.        *)
NumericKeywords == {"minimum", "maximum", "multipleOf"}

\* the keyword is applicable to the exact Python type t
AppliesTo(name, t) ==
    \E i \in 1..Len(KeywordType(name)) : valid_types[KeywordType(name)[i]] = t

\* C30: the rules of a run are the general ones and the one list under the
\* instance's exact type; a type-specific rule runs only on an instance of
\* a type it applies to and, under a declared type, only on an instance of
\* a declared type; no rule of a numeric keyword runs on a boolean, at any
\* level of the schema that sees the instance itself
C30_ExactTagDispatch ==
    /\ pc = "running" => todo = _program.general \o _program.type_specific[data.t]
    /\ Invoked =>
          /\ KeywordType(LastRule.name) # <<>> => AppliesTo(LastRule.name, data.t)
          /\ data.t = "bool" => LastRule.name \notin NumericKeywords
          /\ (Declares # {} /\ ~AdmitsExactly(data)) => KeywordType(LastRule.name) = <<>>
    /\ data.t = "bool" =>
          \A i \in 1..Len(errors) :
              errors[i].path = <<>> => errors[i].keyword \notin NumericKeywords
    /\ (pc = "ValidationError" /\ Declares # {} /\ ~AdmitsExactly(data)
          /\ \A i \in 1..Len(RootKeywords) : KeywordType(RootKeywords[i].name) # <<>>
                                                \/ RootKeywords[i].name = "type") =>
          errors = <<Error(<<>>, RootKeywords[CHOOSE i \in 1..Len(RootKeywords) :
                                                  RootKeywords[i].name = "type"])>>

\* the function generated for the program, and the one with its type tests
\* rewritten, give a boolean no error of a numeric keyword either
C30_GeneratedFunctionOnBoolean ==
    (Constructed /\ data.t = "bool") =>
        /\ \A i \in 1..Len(Unoptimized.errors) :
              Unoptimized.errors[i].keyword \notin NumericKeywords
        /\ LET rewritten == Function(Optimizer_type_calling(ast_body(_program)), data) IN
           \A i \in 1..Len(rewritten.errors) :
              rewritten.errors[i].keyword \notin NumericKeywords

C30_Witness_OnlyTheTypeError ==
    /\ pc = "ValidationError"
    /\ data = JStr("x")
    /\ Declares = {"integer"}
    /\ {"minimum", "maximum"} \subseteq DictKeySet(schema_definition)
    /\ errors = <<Error(<<>>, Keyword("type", JStr("integer"), <<PathKey("type")>>))>>

\* a boolean instance under numeric keywords that an integer 1 would fail
C30_Witness_BooleanUnderMinimum ==
    /\ pc = "returned"
    /\ data = JBool(TRUE)
    /\ DictHas(schema_definition, "minimum")
    /\ ~DictHas(schema_definition, "type")
    /\ DictGet(schema_definition, "minimum") = JInt(2)

====
